---- MODULE Spec2Model ----
(***************************************************************************)
(* A model of cyber-alert-mgr's ingestion pipeline and job coordinator:    *)
(* the Express handlers of the server (job lock, sync / deduplicate /      *)
(* reprocess jobs, rule update and delete, single-alert reprocess), the    *)
(* services they call (fetchAlerts, processAlerts, removeDuplicates) and   *)
(* the SQLite tables they read and write.                                  *)
(*                                                                         *)
(* Text is a sequence of one-character strings, so that includes(),        *)
(* toLowerCase() and replace() are computed character by character.        *)
(* Timestamps (new Date()) are readings of a clock that counts 1, 2, ...    *)
(* Confidence scores are percentages (0.85 is 85), base scores tenths.     *)
(***************************************************************************)
EXTENDS Integers, Sequences, FiniteSets, TLC

(***************************************************************************)
(* Bounds of the model.                                                    *)
(***************************************************************************)
\* Number of request slots: requests that can be in flight at the same time.
MaxReq == 2
\* Alert ids (crypto.randomUUID()) are drawn from 1..MaxAlertIds.
MaxAlertIds == 3
\* The clock (new Date()) reads 1..MaxTime.
MaxTime == 2
\* Largest number of entries in one upstream response.
MaxBatch == 2
\* Sync jobs that get the lock: one starts only while fewer than MaxSyncs runs
\* have written their processing-log rows.
MaxSyncs == 2

Slots == 1..MaxReq
AlertIdPool == 1..MaxAlertIds

(***************************************************************************)
(* JavaScript values.                                                      *)
(***************************************************************************)
\* undefined / null where a text is expected: a sequence that is no text.
Undefined == <<"undefined">>

\* null or undefined where a time is expected.
NoTime == 0
\* null where a number is expected (a cve without cvss metrics).
NoScore == -1
\* The empty string.
Empty == <<>>

\* JavaScript's a || b on texts: undefined and '' are falsy.
OrElse(a, b) == IF a = Undefined \/ a = Empty THEN b ELSE a

RECURSIVE SeqRange(_)
SeqRange(s) == IF s = <<>> THEN {} ELSE {Head(s)} \cup SeqRange(Tail(s))

RECURSIVE Concat(_)
\* Array.prototype.join('') of a list of texts.
Concat(ss) == IF ss = <<>> THEN <<>> ELSE Head(ss) \o Concat(Tail(ss))

UpperCase == <<"A","B","C","D","E","F","G","H","I","J","K","L","M",
               "N","O","P","Q","R","S","T","U","V","W","X","Y","Z">>
LowerCase == <<"a","b","c","d","e","f","g","h","i","j","k","l","m",
               "n","o","p","q","r","s","t","u","v","w","x","y","z">>
Digits == {"0","1","2","3","4","5","6","7","8","9"}

\* One character of String.prototype.toLowerCase().
LowerChar(c) ==
    IF \E i \in 1..26 : UpperCase[i] = c
    THEN LowerCase[CHOOSE i \in 1..26 : UpperCase[i] = c]
    ELSE c

\* String.prototype.toLowerCase()
toLowerCase(t) == [i \in 1..Len(t) |-> LowerChar(t[i])]

\* String.prototype.includes(k)
Includes(t, k) ==
    \E i \in 0..(Len(t) - Len(k)) : SubSeq(t, i + 1, i + Len(k)) = k

\* String.prototype.substring(0, n)
Substring(t, n) == SubSeq(t, 1, IF Len(t) < n THEN Len(t) ELSE n)

\* The character class [a-zA-Z0-9_]
WordChars == SeqRange(UpperCase) \cup SeqRange(LowerCase) \cup Digits \cup {"_"}

\* replace(/[^a-zA-Z0-9_]/g, '_')
Sanitize(t) == [i \in 1..Len(t) |-> IF t[i] \in WordChars THEN t[i] ELSE "_"]

(***************************************************************************)
(* processAlerts.js: the Technique Mapper.                                 *)
(***************************************************************************)
patterns ==
    <<
       [keywords |-> <<<<"r", "e", "m", "o", "t", "e", " ", "c", "o", "d", "e", " ", "e", "x", "e", "c", "u", "t", "i", "o", "n">>,
                      <<"r", "c", "e">>,
                      <<"c", "o", "d", "e", " ", "e", "x", "e", "c", "u", "t", "i", "o", "n">>,
                      <<"a", "r", "b", "i", "t", "r", "a", "r", "y", " ", "c", "o", "d", "e">>,
                      <<"e", "x", "e", "c", "u", "t", "e", " ", "a", "r", "b", "i", "t", "r", "a", "r", "y">>>>,
        technique_id |-> "T1203", technique_name |-> "Exploitation for Client Execution",
        tactic |-> "Execution", confidence |-> 85],
       [keywords |-> <<<<"s", "q", "l", " ", "i", "n", "j", "e", "c", "t", "i", "o", "n">>,
                      <<"s", "q", "l", "i">>,
                      <<"s", "q", "l">>>>,
        technique_id |-> "T1190", technique_name |-> "Exploit Public-Facing Application",
        tactic |-> "Initial Access", confidence |-> 90],
       [keywords |-> <<<<"p", "r", "i", "v", "i", "l", "e", "g", "e", " ", "e", "s", "c", "a", "l", "a", "t", "i", "o", "n">>,
                      <<"e", "l", "e", "v", "a", "t", "e", " ", "p", "r", "i", "v", "i", "l", "e", "g", "e", "s">>,
                      <<"g", "a", "i", "n", " ", "p", "r", "i", "v", "i", "l", "e", "g", "e", "s">>,
                      <<"r", "o", "o", "t", " ", "a", "c", "c", "e", "s", "s">>,
                      <<"a", "d", "m", "i", "n", " ", "a", "c", "c", "e", "s", "s">>>>,
        technique_id |-> "T1068", technique_name |-> "Exploitation for Privilege Escalation",
        tactic |-> "Privilege Escalation", confidence |-> 85],
       [keywords |-> <<<<"c", "r", "e", "d", "e", "n", "t", "i", "a", "l">>,
                      <<"p", "a", "s", "s", "w", "o", "r", "d">>,
                      <<"a", "u", "t", "h", "e", "n", "t", "i", "c", "a", "t", "i", "o", "n">>,
                      <<"l", "o", "g", "i", "n">>,
                      <<"b", "y", "p", "a", "s", "s", " ", "a", "u", "t", "h", "e", "n", "t", "i", "c", "a", "t", "i", "o", "n">>>>,
        technique_id |-> "T1078", technique_name |-> "Valid Accounts",
        tactic |-> "Defense Evasion", confidence |-> 70],
       [keywords |-> <<<<"p", "h", "i", "s", "h", "i", "n", "g">>,
                      <<"s", "p", "e", "a", "r", " ", "p", "h", "i", "s", "h", "i", "n", "g">>,
                      <<"s", "o", "c", "i", "a", "l", " ", "e", "n", "g", "i", "n", "e", "e", "r", "i", "n", "g">>>>,
        technique_id |-> "T1566", technique_name |-> "Phishing",
        tactic |-> "Initial Access", confidence |-> 90],
       [keywords |-> <<<<"m", "a", "l", "w", "a", "r", "e">>,
                      <<"t", "r", "o", "j", "a", "n">>,
                      <<"b", "a", "c", "k", "d", "o", "o", "r">>,
                      <<"v", "i", "r", "u", "s">>,
                      <<"r", "a", "n", "s", "o", "m", "w", "a", "r", "e">>,
                      <<"s", "p", "y", "w", "a", "r", "e">>>>,
        technique_id |-> "T1204", technique_name |-> "User Execution",
        tactic |-> "Execution", confidence |-> 75],
       [keywords |-> <<<<"v", "u", "l", "n", "e", "r", "a", "b", "i", "l", "i", "t", "y">>,
                      <<"b", "u", "f", "f", "e", "r", " ", "o", "v", "e", "r", "f", "l", "o", "w">>,
                      <<"o", "v", "e", "r", "f", "l", "o", "w">>,
                      <<"m", "e", "m", "o", "r", "y", " ", "c", "o", "r", "r", "u", "p", "t", "i", "o", "n">>,
                      <<"o", "u", "t", " ", "o", "f", " ", "b", "o", "u", "n", "d", "s">>>>,
        technique_id |-> "T1203", technique_name |-> "Exploitation for Client Execution",
        tactic |-> "Execution", confidence |-> 80],
       [keywords |-> <<<<"d", "e", "n", "i", "a", "l", " ", "o", "f", " ", "s", "e", "r", "v", "i", "c", "e">>,
                      <<"d", "o", "s">>,
                      <<"d", "d", "o", "s">>,
                      <<"c", "r", "a", "s", "h">>>>,
        technique_id |-> "T1498", technique_name |-> "Network Denial of Service",
        tactic |-> "Impact", confidence |-> 85],
       [keywords |-> <<<<"c", "o", "m", "m", "a", "n", "d", " ", "i", "n", "j", "e", "c", "t", "i", "o", "n">>,
                      <<"c", "o", "m", "m", "a", "n", "d", " ", "e", "x", "e", "c", "u", "t", "i", "o", "n">>,
                      <<"s", "h", "e", "l", "l">>>>,
        technique_id |-> "T1059", technique_name |-> "Command and Scripting Interpreter",
        tactic |-> "Execution", confidence |-> 85],
       [keywords |-> <<<<"d", "a", "t", "a", " ", "e", "x", "f", "i", "l", "t", "r", "a", "t", "i", "o", "n">>,
                      <<"d", "a", "t", "a", " ", "t", "h", "e", "f", "t">>,
                      <<"e", "x", "f", "i", "l", "t", "r", "a", "t", "e">>,
                      <<"l", "e", "a", "k">>,
                      <<"d", "i", "s", "c", "l", "o", "s", "u", "r", "e">>,
                      <<"s", "e", "n", "s", "i", "t", "i", "v", "e", " ", "i", "n", "f", "o", "r", "m", "a", "t", "i", "o", "n">>>>,
        technique_id |-> "T1041", technique_name |-> "Exfiltration Over C2 Channel",
        tactic |-> "Exfiltration", confidence |-> 80],
       [keywords |-> <<<<"c", "r", "o", "s", "s", "-", "s", "i", "t", "e", " ", "s", "c", "r", "i", "p", "t", "i", "n", "g">>,
                      <<"x", "s", "s">>>>,
        technique_id |-> "T1190", technique_name |-> "Exploit Public-Facing Application",
        tactic |-> "Initial Access", confidence |-> 85],
       [keywords |-> <<<<"d", "i", "r", "e", "c", "t", "o", "r", "y", " ", "t", "r", "a", "v", "e", "r", "s", "a", "l">>,
                      <<"p", "a", "t", "h", " ", "t", "r", "a", "v", "e", "r", "s", "a", "l">>>>,
        technique_id |-> "T1190", technique_name |-> "Exploit Public-Facing Application",
        tactic |-> "Initial Access", confidence |-> 85],
       [keywords |-> <<<<"i", "n", "j", "e", "c", "t", "i", "o", "n">>,
                      <<"i", "n", "j", "e", "c", "t">>>>,
        technique_id |-> "T1059", technique_name |-> "Command and Scripting Interpreter",
        tactic |-> "Execution", confidence |-> 70]
    >>


\* The mapping emitted when no pattern matches.
DefaultMapping ==
    [technique_id |-> "T1190", technique_name |-> "Exploit Public-Facing Application",
     tactic |-> "Initial Access",
     description |-> "Default mapping for vulnerability alerts",
     confidence_score |-> 50]

\* pattern.keywords.some(keyword => description.includes(keyword))
PatternHits(p, description) ==
    \E i \in 1..Len(p.keywords) : Includes(description, p.keywords[i])

\* mapToMitre(alert): one mapping per matching pattern, in table order, or
\* the default mapping.
mapToMitre(alert) ==
    LET description == toLowerCase(OrElse(alert.description, OrElse(alert.title, Empty)))
        hits == SelectSeq(patterns, LAMBDA p : PatternHits(p, description))
    IN  IF hits = <<>>
        THEN <<DefaultMapping>>
        ELSE [i \in 1..Len(hits) |->
                [technique_id |-> hits[i].technique_id,
                 technique_name |-> hits[i].technique_name,
                 tactic |-> hits[i].tactic,
                 description |-> "Mapped based on alert content analysis",
                 confidence_score |-> hits[i].confidence]]

(***************************************************************************)
(* processAlerts.js: attack-category detection.                            *)
(***************************************************************************)
\* The null returned by detectAttackType.
NoAttackType == "null"

\* A detection that looks for path traversal before cross-site scripting.
detectAttackTypeTraversalFirst(text) ==
    LET lowerText == toLowerCase(text)
        has(k) == Includes(lowerText, k)
    IN  IF /\ (has(<<"s","q","l">>) \/ has(<<"i","n","j","e","c","t","i","o","n">>)
                 \/ has(<<"d","a","t","a","b","a","s","e">>))
           /\ has(<<"s","q","l">>)
        THEN "sql_injection"
        ELSE IF has(<<"t","r","a","v","e","r","s","a","l">>)
                  \/ has(<<"d","i","r","e","c","t","o","r","y">>)
                  \/ has(<<".",".","/">>)
        THEN "path_traversal"
        ELSE IF has(<<"x","s","s">>) \/ has(<<"c","r","o","s","s","-","s","i","t","e">>)
                  \/ has(<<"s","c","r","i","p","t","i","n","g">>)
        THEN "xss"
        ELSE IF has(<<"c","o","m","m","a","n","d">>)
                  /\ (has(<<"i","n","j","e","c","t","i","o","n">>)
                        \/ has(<<"e","x","e","c","u","t","i","o","n">>))
        THEN "command_injection"
        ELSE IF has(<<"r","c","e">>) \/ has(<<"r","e","m","o","t","e"," ","c","o","d","e">>)
        THEN "rce"
        ELSE NoAttackType

detectAttackType(text) ==
    LET lowerText == toLowerCase(text)
        has(k) == Includes(lowerText, k)
    IN  IF /\ (has(<<"s","q","l">>) \/ has(<<"i","n","j","e","c","t","i","o","n">>)
                 \/ has(<<"d","a","t","a","b","a","s","e">>))
           /\ has(<<"s","q","l">>)
        THEN "sql_injection"
        ELSE IF has(<<"x","s","s">>) \/ has(<<"c","r","o","s","s","-","s","i","t","e">>)
                  \/ has(<<"s","c","r","i","p","t","i","n","g">>)
        THEN "xss"
        ELSE IF has(<<"t","r","a","v","e","r","s","a","l">>)
                  \/ has(<<"d","i","r","e","c","t","o","r","y">>)
                  \/ has(<<".",".","/">>)
        THEN "path_traversal"
        ELSE IF has(<<"c","o","m","m","a","n","d">>)
                  /\ (has(<<"i","n","j","e","c","t","i","o","n">>)
                        \/ has(<<"e","x","e","c","u","t","i","o","n">>))
        THEN "command_injection"
        ELSE IF has(<<"r","c","e">>) \/ has(<<"r","e","m","o","t","e"," ","c","o","d","e">>)
        THEN "rce"
        ELSE NoAttackType

\* The string definitions of each attack category: `$var = "value" modifiers`.
ATTACK_SIGNATURES ==
    [attackType \in {"sql_injection", "xss", "path_traversal", "command_injection", "rce"} |->
        IF attackType = "sql_injection" THEN
       <<[var |-> <<"$", "s", "q", "l", "i", "1">>,
          value |-> <<"U", "N", "I", "O", "N", " ", "S", "E", "L", "E", "C", "T">>,
          modifiers |-> "nocase"],
         [var |-> <<"$", "s", "q", "l", "i", "2">>,
          value |-> <<"O", "R", " ", "1", "=", "1">>,
          modifiers |-> "nocase"],
         [var |-> <<"$", "s", "q", "l", "i", "3">>,
          value |-> <<"i", "n", "f", "o", "r", "m", "a", "t", "i", "o", "n", "_", "s", "c", "h", "e", "m", "a">>,
          modifiers |-> "nocase"],
         [var |-> <<"$", "s", "q", "l", "i", "4">>,
          value |-> <<"x", "p", "_", "c", "m", "d", "s", "h", "e", "l", "l">>,
          modifiers |-> "nocase"],
         [var |-> <<"$", "s", "q", "l", "i", "5">>,
          value |-> <<"-", "-">>,
          modifiers |-> "wide ascii"],
         [var |-> <<"$", "s", "q", "l", "i", "6">>,
          value |-> <<";", " ", "D", "R", "O", "P", " ", "T", "A", "B", "L", "E">>,
          modifiers |-> "nocase"]>>
        ELSE IF attackType = "xss" THEN
       <<[var |-> <<"$", "x", "s", "s", "1">>,
          value |-> <<"<", "s", "c", "r", "i", "p", "t", ">">>,
          modifiers |-> "nocase"],
         [var |-> <<"$", "x", "s", "s", "2">>,
          value |-> <<"j", "a", "v", "a", "s", "c", "r", "i", "p", "t", ":">>,
          modifiers |-> "nocase"],
         [var |-> <<"$", "x", "s", "s", "3">>,
          value |-> <<"o", "n", "e", "r", "r", "o", "r", "=">>,
          modifiers |-> "nocase"],
         [var |-> <<"$", "x", "s", "s", "4">>,
          value |-> <<"o", "n", "l", "o", "a", "d", "=">>,
          modifiers |-> "nocase"],
         [var |-> <<"$", "x", "s", "s", "5">>,
          value |-> <<"d", "o", "c", "u", "m", "e", "n", "t", ".", "c", "o", "o", "k", "i", "e">>,
          modifiers |-> "nocase"]>>
        ELSE IF attackType = "path_traversal" THEN
       <<[var |-> <<"$", "p", "t", "1">>,
          value |-> <<".", ".", "/">>,
          modifiers |-> "ascii"],
         [var |-> <<"$", "p", "t", "2">>,
          value |-> <<".", ".", "%", "2", "f">>,
          modifiers |-> "nocase"],
         [var |-> <<"$", "p", "t", "3">>,
          value |-> <<"/", "e", "t", "c", "/", "p", "a", "s", "s", "w", "d">>,
          modifiers |-> "nocase"],
         [var |-> <<"$", "p", "t", "4">>,
          value |-> <<"C", ":", "\\", "\\", "W", "i", "n", "d", "o", "w", "s", "\\", "\\", "S", "y", "s", "t", "e", "m", "3", "2">>,
          modifiers |-> "nocase"]>>
        ELSE IF attackType = "command_injection" THEN
       <<[var |-> <<"$", "c", "m", "d", "1">>,
          value |-> <<"/", "b", "i", "n", "/", "s", "h">>,
          modifiers |-> "nocase"],
         [var |-> <<"$", "c", "m", "d", "2">>,
          value |-> <<"/", "b", "i", "n", "/", "b", "a", "s", "h">>,
          modifiers |-> "nocase"],
         [var |-> <<"$", "c", "m", "d", "3">>,
          value |-> <<"c", "m", "d", ".", "e", "x", "e">>,
          modifiers |-> "nocase"],
         [var |-> <<"$", "c", "m", "d", "4">>,
          value |-> <<"p", "o", "w", "e", "r", "s", "h", "e", "l", "l">>,
          modifiers |-> "nocase"],
         [var |-> <<"$", "c", "m", "d", "5">>,
          value |-> <<"&", "&">>,
          modifiers |-> "ascii"],
         [var |-> <<"$", "c", "m", "d", "6">>,
          value |-> <<"|">>,
          modifiers |-> "ascii"]>>
        ELSE
       <<[var |-> <<"$", "r", "c", "e", "1">>,
          value |-> <<"e", "v", "a", "l", "(">>,
          modifiers |-> "nocase"],
         [var |-> <<"$", "r", "c", "e", "2">>,
          value |-> <<"b", "a", "s", "e", "6", "4", "_", "d", "e", "c", "o", "d", "e">>,
          modifiers |-> "nocase"],
         [var |-> <<"$", "r", "c", "e", "3">>,
          value |-> <<"s", "h", "e", "l", "l", "_", "e", "x", "e", "c">>,
          modifiers |-> "nocase"],
         [var |-> <<"$", "r", "c", "e", "4">>,
          value |-> <<"s", "y", "s", "t", "e", "m", "(">>,
          modifiers |-> "nocase"]>>]

(***************************************************************************)
(* processAlerts.js: the Indicator Engine.                                 *)
(***************************************************************************)
Letters == SeqRange(UpperCase) \cup SeqRange(LowerCase)
\* [a-z0-9] under the flag i, and [a-f0-9] under the flag i
Alnum == Letters \cup Digits
Hex == Digits \cup {"a","b","c","d","e","f","A","B","C","D","E","F"}

\* Lengths of the hash regexes, cap of each class of matches, digits of an
\* octet, characters of a domain label ({0,61} and its two ends).
Md5Length == 32
Sha1Length == 40
Sha256Length == 64
IndicatorCap == 5
OctetDigits == 3
LabelLimit == 63

\* \b between the characters k and k + 1 of the text (k = 0: at its start).
Boundary(text, k) ==
    (k >= 1 /\ text[k] \in WordChars) # (k < Len(text) /\ text[k + 1] \in WordChars)

Max(S) == CHOOSE x \in S : \A y \in S : y <= x
Min(S) == CHOOSE x \in S : \A y \in S : x <= y

\* /\b[a-f0-9]{n}\b/i at position i: the position where the match ends, 0
\* when there is none.
HashEnd(n, text, i) ==
    IF /\ i + n - 1 <= Len(text)
       /\ Boundary(text, i - 1)
       /\ \A k \in i..(i + n - 1) : text[k] \in Hex
       /\ Boundary(text, i + n - 1)
    THEN i + n - 1 ELSE 0

\* [0-9]{1,3} from position i: the positions where it may end.
OctetEnds(text, i) ==
    {j \in i..(i + OctetDigits - 1) : j <= Len(text) /\ \A k \in i..j : text[k] \in Digits}

\* [0-9]{1,3}\. from position i: the positions of the dot.
OctetDotEnds(text, i) ==
    {j + 1 : j \in {e \in OctetEnds(text, i) : e < Len(text) /\ text[e + 1] = "."}}

\* /\b(?:[0-9]{1,3}\.){3}[0-9]{1,3}\b/ at position i.
IpEnd(text, i) ==
    LET ends == {e \in UNION {OctetEnds(text, c + 1) :
                     c \in UNION {OctetDotEnds(text, b + 1) :
                        b \in UNION {OctetDotEnds(text, a + 1) :
                           a \in OctetDotEnds(text, i)}}} : Boundary(text, e)}
    IN  IF Boundary(text, i - 1) /\ ends # {} THEN Max(ends) ELSE 0

\* [a-z0-9](?:[a-z0-9-]{0,61}[a-z0-9])?
IsLabel(s) ==
    /\ Len(s) \in 1..LabelLimit
    /\ s[1] \in Alnum /\ s[Len(s)] \in Alnum
    /\ \A k \in 1..Len(s) : s[k] \in Alnum \cup {"-"}

\* (?:label\.)+[a-z0-9][a-z0-9-]{0,61}[a-z0-9]: labels between the dots, at
\* least one dot, the last label of two characters or more.
IsDomain(s) ==
    LET cuts == {0, Len(s) + 1} \cup {k \in 1..Len(s) : s[k] = "."}
    IN  /\ Cardinality(cuts) >= 3
        /\ \A a, b \in cuts :
              (a < b /\ ~\E c \in cuts : a < c /\ c < b) => IsLabel(SubSeq(s, a + 1, b - 1))
        /\ Len(s) - Max(cuts \ {Len(s) + 1}) >= 2

\* The characters a domain match is made of.
DomainChars == Alnum \cup {"-", "."}

\* The domain regex at position i: the greedy quantifiers take the longest
\* match, which lies within the run of domain characters that starts at i.
DomainEnd(text, i) ==
    IF ~Boundary(text, i - 1) THEN 0
    ELSE LET stops == {k \in i..Len(text) : text[k] \notin DomainChars}
             last == IF stops = {} THEN Len(text) ELSE Min(stops) - 1
             ends == {j \in i..last :
                        Boundary(text, j) /\ IsDomain(SubSeq(text, i, j))}
         IN  IF ends # {} THEN Max(ends) ELSE 0

MatchEnd(regex, text, i) ==
    IF regex = "md5" THEN HashEnd(Md5Length, text, i)
    ELSE IF regex = "sha1" THEN HashEnd(Sha1Length, text, i)
    ELSE IF regex = "sha256" THEN HashEnd(Sha256Length, text, i)
    ELSE IF regex = "ip" THEN IpEnd(text, i)
    ELSE DomainEnd(text, i)

\* text.match(regex) under the flag g, from position p on: the matches from
\* left to right, each search starting where the last match ended.  Every
\* regex begins with \b, so a match starts at a boundary.
RECURSIVE Matches(_, _, _)
Matches(regex, text, p) ==
    LET starts == {i \in p..Len(text) :
                     Boundary(text, i - 1) /\ MatchEnd(regex, text, i) # 0}
    IN  IF starts = {} THEN <<>>
        ELSE <<SubSeq(text, Min(starts), MatchEnd(regex, text, Min(starts)))>>
                \o Matches(regex, text, MatchEnd(regex, text, Min(starts)) + 1)

EndsWith(t, k) == Len(k) <= Len(t) /\ SubSeq(t, Len(t) - Len(k) + 1, Len(t)) = k

\* The filter of the domain matches.
KeptDomain(d) ==
    /\ ~EndsWith(d, <<".","c","o","m">>)
    /\ ~EndsWith(d, <<".","o","r","g">>)
    /\ ~Includes(d, <<"e","x","a","m","p","l","e">>)

\* An extraction that caps the domain matches before it filters them.
extractIndicatorsCapFirst(text) ==
    [hashes |-> Substring(Matches("md5", text, 1), IndicatorCap)
                   \o Substring(Matches("sha1", text, 1), IndicatorCap)
                   \o Substring(Matches("sha256", text, 1), IndicatorCap),
     ips |-> Substring(Matches("ip", text, 1), IndicatorCap),
     domains |-> SelectSeq(Substring(Matches("domain", text, 1), IndicatorCap),
                           KeptDomain),
     patterns |-> <<>>]

extractIndicators(text) ==
    [hashes |-> Substring(Matches("md5", text, 1), IndicatorCap)
                   \o Substring(Matches("sha1", text, 1), IndicatorCap)
                   \o Substring(Matches("sha256", text, 1), IndicatorCap),
     ips |-> Substring(Matches("ip", text, 1), IndicatorCap),
     domains |-> Substring(SelectSeq(Matches("domain", text, 1), KeptDomain),
                           IndicatorCap),
     patterns |-> <<>>]

(***************************************************************************)
(* processAlerts.js: the Rule Generator.                                   *)
(***************************************************************************)
\* The decimal digits of idx in `$hash${idx}`.
RECURSIVE Decimal(_)
Decimal(n) ==
    IF n < 10 THEN <<CHOOSE c \in Digits : c = ToString(n)>>
    ELSE Decimal(n \div 10) \o Decimal(n % 10)

\* The definitions `$name${idx} = "${value}"` of one class of indicators.
IndicatorStrings(name, values) ==
    [i \in 1..Len(values) |->
        [var |-> <<"$">> \o name \o Decimal(i - 1), value |-> values[i], modifiers |-> ""]]

\* `any of ($name*)`
AnyOf(prefix) == <<"a","n","y"," ","o","f"," ","(">> \o prefix \o <<")">>

\* replace(/[0-9]+$/, '*')
RECURSIVE WithoutTrailingDigits(_)
WithoutTrailingDigits(t) ==
    IF t # <<>> /\ t[Len(t)] \in Digits
    THEN WithoutTrailingDigits(SubSeq(t, 1, Len(t) - 1)) ELSE t
StarForDigits(t) ==
    IF t # <<>> /\ t[Len(t)] \in Digits THEN WithoutTrailingDigits(t) \o <<"*">> ELSE t

\* conditions.join(' or ')
RECURSIVE JoinOr(_)
JoinOr(conditions) ==
    IF conditions = <<>> THEN <<>>
    ELSE IF Len(conditions) = 1 THEN conditions[1]
    ELSE conditions[1] \o <<" ","o","r"," ">> \o JoinOr(Tail(conditions))

\* stringDefinitions before the fallback: the indicators, then the signature
\* of the attack category.
FoundStrings(indicators, attackType) ==
    IndicatorStrings(<<"h","a","s","h">>, indicators.hashes)
        \o IndicatorStrings(<<"i","p">>, indicators.ips)
        \o IndicatorStrings(<<"d","o","m","a","i","n">>, indicators.domains)
        \o (IF attackType \in DOMAIN ATTACK_SIGNATURES
            THEN ATTACK_SIGNATURES[attackType] ELSE <<>>)

\* stringDefinitions, with the fallback when there is none.
RuleStrings(alert, indicators, attackType) ==
    IF FoundStrings(indicators, attackType) = <<>>
    THEN <<[var |-> <<"$","g","e","n","e","r","i","c">>, value |-> alert.external_id,
            modifiers |-> "nocase"]>>
    ELSE FoundStrings(indicators, attackType)

\* Conditions that put the clause of the attack category first.
RuleConditionsCategoryFirst(indicators, attackType) ==
    (IF attackType \in DOMAIN ATTACK_SIGNATURES
     THEN <<AnyOf(StarForDigits(ATTACK_SIGNATURES[attackType][1].var))>> ELSE <<>>)
        \o (IF indicators.hashes # <<>> THEN <<AnyOf(<<"$","h","a","s","h","*">>)>> ELSE <<>>)
        \o (IF indicators.ips # <<>> THEN <<AnyOf(<<"$","i","p","*">>)>> ELSE <<>>)
        \o (IF indicators.domains # <<>>
            THEN <<AnyOf(<<"$","d","o","m","a","i","n","*">>)>> ELSE <<>>)
        \o (IF FoundStrings(indicators, attackType) = <<>>
            THEN <<<<"$","g","e","n","e","r","i","c">>>> ELSE <<>>)

\* conditions, with the fallback when there is no string definition.
RuleConditions(indicators, attackType) ==
    (IF indicators.hashes # <<>> THEN <<AnyOf(<<"$","h","a","s","h","*">>)>> ELSE <<>>)
        \o (IF indicators.ips # <<>> THEN <<AnyOf(<<"$","i","p","*">>)>> ELSE <<>>)
        \o (IF indicators.domains # <<>>
            THEN <<AnyOf(<<"$","d","o","m","a","i","n","*">>)>> ELSE <<>>)
        \o (IF attackType \in DOMAIN ATTACK_SIGNATURES
            THEN <<AnyOf(StarForDigits(ATTACK_SIGNATURES[attackType][1].var))>> ELSE <<>>)
        \o (IF FoundStrings(indicators, attackType) = <<>>
            THEN <<<<"$","g","e","n","e","r","i","c">>>> ELSE <<>>)

\* replace(/"/g, '\\"').replace(/\n/g, ' ')
RECURSIVE CleanText(_)
CleanText(t) ==
    IF t = <<>> THEN <<>>
    ELSE IF Len(t) = 1
    THEN (IF t[1] = "\"" THEN <<"\\", "\"">>
          ELSE IF t[1] = "\n" THEN <<" ">>
          ELSE t)
    ELSE CleanText(SubSeq(t, 1, Len(t) \div 2))
            \o CleanText(SubSeq(t, Len(t) \div 2 + 1, Len(t)))

\* Characters of the rule description kept by generateYaraRule.
DescriptionLimit == 200

\* `alert_${sanitizedTitle}_${sanitizedExternalId}`
RuleName(alert) ==
    <<"a","l","e","r","t","_">> \o Sanitize(alert.title) \o <<"_">>
        \o Sanitize(alert.external_id)

\* The tag list: high_priority for critical and high, the severity, the
\* detected category.
RuleTags(alert, attackType) ==
    (IF alert.severity \in {"critical", "high"} THEN <<"high_priority">> ELSE <<>>)
        \o <<alert.severity>>
        \o (IF attackType # NoAttackType THEN <<attackType>> ELSE <<>>)

\* generateYaraRule(alert), called when the clock reads t.  The content is
\* the record of the values interpolated into the rule text: the name, the
\* meta fields, the string definitions and the condition.
generateYaraRule(alert, t) ==
    LET description == OrElse(alert.description, alert.title)
        indicators == extractIndicators(description)
        attackType == detectAttackType(description \o <<" ">> \o alert.title)
    IN  [name |-> RuleName(alert),
         content |-> [rule |-> RuleName(alert),
                      description |-> CleanText(Substring(description, DescriptionLimit)),
                      severity |-> alert.severity,
                      source |-> OrElse(alert.url, Empty),
                      alert_id |-> alert.external_id,
                      generated |-> t,
                      attack_type |-> IF attackType = NoAttackType
                                      THEN "unknown" ELSE attackType,
                      strings |-> RuleStrings(alert, indicators, attackType),
                      condition |-> JoinOr(RuleConditions(indicators, attackType))],
         description |-> Substring(description, DescriptionLimit),
         tags |-> RuleTags(alert, attackType)]


(***************************************************************************)
(* db.js: the seeded sources and the columns of yara_rules.                *)
(***************************************************************************)
\* The rows initializeDatabase seeds into alert_sources, in insertion order;
\* the index of a row stands for its random id.  is_active defaults to 1.
SeedSources ==
    <<[id |-> 1, name |-> "CISA Advisories", source_type |-> "rss"],
      [id |-> 2, name |-> "FBI IC3 Alerts", source_type |-> "rss"],
      [id |-> 3, name |-> "NIST NVD", source_type |-> "api"],
      [id |-> 4, name |-> "FBI Cyber Crime", source_type |-> "scrape"]>>

SourceIds == {SeedSources[i].id : i \in 1..Len(SeedSources)}

\* CHECK (severity IN (...)) of the alerts table.
Severities == {"critical", "high", "medium", "low", "info"}

\* The columns initializeDatabase gives yara_rules.
YaraRuleColumns ==
    {"id", "alert_id", "rule_name", "rule_content", "description", "tags",
     "generated_at", "created_at"}

\* Whether yara_rules has a column is_locked: no statement of the program
\* adds a column to the table initializeDatabase creates.
lockColumn == "is_locked" \in YaraRuleColumns

\* rule.is_locked of a row read with SELECT * as a condition: undefined,
\* which is not truthy, in a table without the column.
IsLocked(rule) == lockColumn /\ rule.is_locked # 0

(***************************************************************************)
(* fetchAlerts.js: the source fetchers.  An upstream response is either a  *)
(* failure [ok |-> FALSE, error |-> message] or [ok |-> TRUE, items |-> a  *)
(* list of feed items or cve entries].                                     *)
(***************************************************************************)
NoDescription == <<"N","o"," ","d","e","s","c","r","i","p","t","i","o","n">>
NvdUrlPrefix ==
    <<"h","t","t","p","s",":","/","/","n","v","d",".","n","i","s","t",".","g","o","v",
      "/","v","u","l","n","/","d","e","t","a","i","l","/">>

\* The thresholds of fetchNISTAlerts, in tenths of a point.
CriticalScore == 90
HighScore == 70
MediumScore == 40

\* The severity fetchNISTAlerts derives from a cve's cvss metrics.
NistSeverity(cve) ==
    IF ~cve.hasMetrics THEN "info"
    ELSE LET score == IF cve.baseScore = NoScore THEN 0 ELSE cve.baseScore
         IN  IF score >= CriticalScore THEN "critical"
             ELSE IF score >= HighScore THEN "high"
             ELSE IF score >= MediumScore THEN "medium"
             ELSE "low"

\* One candidate of fetchNISTAlerts.
NistCandidate(cve) ==
    [external_id |-> cve.id,
     title |-> cve.id,
     description |-> OrElse(cve.description, NoDescription),
     severity |-> NistSeverity(cve),
     published_date |-> cve.published,
     updated_date |-> cve.lastModified,
     url |-> NvdUrlPrefix \o cve.id,
     raw_data |-> cve]

fetchNISTAlerts(vulnerabilities) ==
    [i \in 1..Len(vulnerabilities) |-> NistCandidate(vulnerabilities[i])]

\* item.title + ' ' + (item.contentSnippet || item.content || ''), lowercased
RssText(item) ==
    toLowerCase((IF item.title = Undefined
                 THEN <<"u","n","d","e","f","i","n","e","d">> ELSE item.title)
                \o <<" ">> \o OrElse(item.contentSnippet, OrElse(item.content, Empty)))

\* The severity fetchRSSAlerts derives from the item's text.
RssSeverity(item) ==
    LET text == RssText(item)
    IN  IF Includes(text, <<"c","r","i","t","i","c","a","l">>)
           \/ Includes(text, <<"0","-","d","a","y">>) THEN "critical"
        ELSE IF Includes(text, <<"h","i","g","h">>) THEN "high"
        ELSE IF Includes(text, <<"l","o","w">>) THEN "low"
        ELSE "medium"

\* new Date(item.pubDate).toISOString(): a pubDate that parses as a date
\* gives that instant; an absent or unparseable one makes an Invalid Date,
\* whose toISOString() throws a RangeError.
InvalidDate == -1
IsValidDate(pubDate) == pubDate > NoTime
InvalidTimeValue == "Invalid time value"

\* item.isoDate || new Date(item.pubDate).toISOString(), where it does not
\* throw.
RssDate(item) == IF item.isoDate # NoTime THEN item.isoDate ELSE item.pubDate

\* Whether the loop over feed.items throws: some item has neither an isoDate
\* nor a pubDate that is a date.
RssThrows(items) ==
    \E i \in 1..Len(items) :
        items[i].isoDate = NoTime /\ ~IsValidDate(items[i].pubDate)

\* One candidate of fetchRSSAlerts, read when the clock says t; uuid is what
\* crypto.randomUUID() gives when the item has neither a guid nor a link.
RssCandidate(item, t, uuid) ==
    [external_id |-> OrElse(item.guid, OrElse(item.link, uuid)),
     title |-> item.title,
     description |-> OrElse(item.contentSnippet, OrElse(item.content, NoDescription)),
     severity |-> RssSeverity(item),
     published_date |-> RssDate(item),
     updated_date |-> t,
     url |-> item.link,
     raw_data |-> item]

\* The candidates of a feed none of whose items throws; uuids[i] is the
\* random identifier drawn for the i-th item.
fetchRSSAlerts(items, t, uuids) ==
    [i \in 1..Len(items) |-> RssCandidate(items[i], t, uuids[i])]

\* fetchScrapedAlerts: the stub.
fetchScrapedAlerts == <<>>

\* Whether the fetcher of the source throws on the entries it was served.
FetchThrows(source, items) == source.source_type = "rss" /\ RssThrows(items)

\* The dispatch of fetchAlerts on the source's type and name.
FetchCandidates(source, items, t, uuids) ==
    IF source.source_type = "api" /\ source.name = "NIST NVD" THEN fetchNISTAlerts(items)
    ELSE IF source.source_type = "rss" THEN fetchRSSAlerts(items, t, uuids)
    ELSE IF source.source_type = "scrape" THEN fetchScrapedAlerts
    ELSE <<>>

(***************************************************************************)
(* What the sources serve: the feed items and cve entries of the model.    *)
(***************************************************************************)
ExtA == <<"a","-","1">>
ExtB == <<"b">>

RssItem1 ==
    [guid |-> ExtA, link |-> <<"u","1">>, title |-> <<"S","Q","L">>,
     contentSnippet |-> <<"s","q","l">>, content |-> Undefined, isoDate |-> 1,
     pubDate |-> 1]
RssItem2 ==
    [guid |-> ExtA, link |-> <<"u","2">>, title |-> <<"x","s","s">>,
     contentSnippet |-> <<"h","i","g","h"," ","r","c","e">>, content |-> Undefined,
     isoDate |-> 2, pubDate |-> 2]
\* An item without a title: its insert fails on NOT NULL.
RssItem3 ==
    [guid |-> Undefined, link |-> ExtB, title |-> Undefined,
     contentSnippet |-> Undefined, content |-> Undefined, isoDate |-> 1,
     pubDate |-> NoTime]
\* An item with neither a guid nor a link, dated by its pubDate only.
RssItem4 ==
    [guid |-> Undefined, link |-> Undefined, title |-> <<"n","o"," ","i","d">>,
     contentSnippet |-> <<"x">>, content |-> Undefined, isoDate |-> NoTime,
     pubDate |-> 2]
\* An item with no date at all.
RssItem5 ==
    [guid |-> <<"g","5">>, link |-> <<"u","5">>, title |-> <<"n","o"," ","d","a","t","e">>,
     contentSnippet |-> <<"x">>, content |-> Undefined, isoDate |-> NoTime,
     pubDate |-> NoTime]
\* An item whose pubDate is no date.
RssItem6 ==
    [guid |-> <<"g","6">>, link |-> <<"u","6">>, title |-> <<"b","a","d">>,
     contentSnippet |-> <<"x">>, content |-> Undefined, isoDate |-> NoTime,
     pubDate |-> InvalidDate]

Cve1 ==
    [id |-> ExtA, description |-> <<"d","o","s">>, hasMetrics |-> TRUE,
     baseScore |-> 95, published |-> 2, lastModified |-> 2]
Cve2 ==
    [id |-> ExtB, description |-> Undefined, hasMetrics |-> FALSE,
     baseScore |-> NoScore, published |-> 1, lastModified |-> 1]

\* The entry of Cve1 after the database revised it.
Cve3 ==
    [id |-> ExtA, description |-> <<"l","f","i">>, hasMetrics |-> TRUE,
     baseScore |-> 50, published |-> 3, lastModified |-> 3]

\* The lists of at most MaxBatch distinct entries of a pool.
Batches(pool) ==
    UNION {{s \in [1..n -> pool] : \A i, j \in 1..n : i # j => s[i] # s[j]}
           : n \in 0..MaxBatch}

Failure(message) == [ok |-> FALSE, error |-> message, items |-> <<>>]
Served(items) == [ok |-> TRUE, error |-> "", items |-> items]


(***************************************************************************)
(* The state: the job lock of the server, the tables of the database, the  *)
(* requests in flight and the last response sent.                          *)
(***************************************************************************)
VARIABLES
    jobState,             \* {isRunning, currentJob, startTime} of the server
    alerts,               \* table alerts
    yara_rules,           \* table yara_rules
    alert_mitre_mappings, \* table alert_mitre_mappings
    processing_logs,      \* table processing_logs, in insertion order
    alert_sources,        \* last_checked_at of each seeded source (0: NULL)
    mitre_attack_techniques, \* table mitre_attack_techniques: id and technique_id
    txn,                  \* the transaction open on the connection, if any
    env,                  \* the environment: the active sources, what they may
                          \* serve, the statements that may reject
    now,                  \* the clock
    req,                  \* the handler invocation of each request slot
    resp                  \* the last response sent

tables == <<alerts, yara_rules, alert_mitre_mappings, processing_logs, alert_sources,
            mitre_attack_techniques>>
dbVars == <<alerts, yara_rules, alert_mitre_mappings, processing_logs, alert_sources,
            mitre_attack_techniques, txn>>
envVars == <<env, now>>
vars == <<jobState, alerts, yara_rules, alert_mitre_mappings, processing_logs,
          alert_sources, mitre_attack_techniques, txn, env, now, req, resp>>

\* What new Date() reads in this step.
Clock == {now}

\* null as the value of jobState.currentJob.
NoJob == "null"

\* The outcomes of a database statement: it resolves (TRUE) or, where the
\* environment lets the statement fail, rejects (FALSE).
DbOutcomes(statement) == IF statement \in env.faults THEN BOOLEAN ELSE {TRUE}

\* The message of the error a rejected statement carries.
DbError == "SQLITE_IOERR: disk I/O error"

\* The messages of the statements sqlite rejects for the state of the
\* connection, which all handlers share.
NestedBegin == "SQLITE_ERROR: cannot start a transaction within a transaction"
NoCommit == "SQLITE_ERROR: cannot commit - no transaction is active"
NoRollback == "SQLITE_ERROR: cannot rollback - no transaction is active"
TechniqueExists ==
    "SQLITE_CONSTRAINT: UNIQUE constraint failed: mitre_attack_techniques.technique_id"

\* The connection outside a transaction, and inside one begun when the
\* tables were `saved`: ROLLBACK brings them back.
NoTxn ==
    [open |-> FALSE, alerts |-> {}, yara_rules |-> {}, alert_mitre_mappings |-> {},
     processing_logs |-> <<>>, alert_sources |-> <<>>, mitre_attack_techniques |-> {}]
OpenTxn ==
    [open |-> TRUE, alerts |-> alerts, yara_rules |-> yara_rules,
     alert_mitre_mappings |-> alert_mitre_mappings, processing_logs |-> processing_logs,
     alert_sources |-> alert_sources, mitre_attack_techniques |-> mitre_attack_techniques]

\* A statement that rejects with an I/O error while a transaction is open
\* leaves the transaction as it is, or sqlite has rolled it back by itself:
\* whether the tables are those of the BEGIN afterwards.
AutoRollback(dbOk) == IF ~dbOk /\ txn.open THEN BOOLEAN ELSE {FALSE}

\* The tables of the BEGIN are back and no transaction is open.
RolledBack ==
    /\ alerts' = txn.alerts
    /\ yara_rules' = txn.yara_rules
    /\ alert_mitre_mappings' = txn.alert_mitre_mappings
    /\ processing_logs' = txn.processing_logs
    /\ alert_sources' = txn.alert_sources
    /\ mitre_attack_techniques' = txn.mitre_attack_techniques
    /\ txn' = NoTxn

\* The database after a statement rejected with an I/O error.
IoError(rolled) ==
    IF rolled THEN RolledBack
    ELSE UNCHANGED <<alerts, yara_rules, alert_mitre_mappings, processing_logs,
                     alert_sources, mitre_attack_techniques, txn>>

ZeroStats == [alertsRemoved |-> 0, rulesRemoved |-> 0, mappingsRemoved |-> 0]

\* A request slot with no handler running in it.
NoBody == [rule_content |-> [absent |-> TRUE], is_locked |-> -1]
IdleReq ==
    [kind |-> "none", pc |-> "idle",
     id |-> 0, body |-> NoBody,                \* req.params.id, req.body
     srcs |-> <<>>,                            \* fetchAlerts: the sources left
     alerts |-> <<>>, n |-> 0,                 \* the candidates, the one the loop is at
     error |-> "",                             \* the message of the error caught
     queue |-> <<>>,                           \* processAlerts: the alerts left
     techs |-> <<>>,                           \* the mappings left
     technique |-> 0,                          \* technique.id of the mapping at hand
     at |-> NoTime,                            \* the date bound to the statement issued
     dups |-> <<>>, ids |-> {},                \* removeDuplicates: duplicates, idsToDelete
     fetch |-> <<>>, process |-> <<>>, stats |-> ZeroStats]

NoResponse ==
    [op |-> "none", id |-> 0, status |-> 0, job |-> "", fetch |-> <<>>,
     process |-> <<>>, stats |-> ZeroStats, n |-> 0]

\* The response a handler sends: the n-th response has parity n.
Response(op, id, status, job, fetch, process, stats) ==
    [op |-> op, id |-> id, status |-> status, job |-> job, fetch |-> fetch,
     process |-> process, stats |-> stats, n |-> 1 - resp.n]

(***************************************************************************)
(* index.js: the job lock.                                                 *)
(***************************************************************************)
\* jobState after construction, and after releaseLock().
releaseLock == [isRunning |-> FALSE, currentJob |-> NoJob, startTime |-> NoTime]

\* tryAcquireLock(jobName) when the clock reads t: whether it returned (ok)
\* or threw, the job named in the message thrown, and jobState afterwards.
tryAcquireLock(jobName, t) ==
    IF jobState.isRunning
    THEN [ok |-> FALSE, job |-> jobState.currentJob, state |-> jobState]
    ELSE [ok |-> TRUE, job |-> "",
          state |-> [isRunning |-> TRUE, currentJob |-> jobName, startTime |-> t]]

\* The finally block of a job handler: if (jobState.currentJob === jobName)
\* releaseLock().
Finally(jobName, state) ==
    IF state.currentJob = jobName THEN releaseLock ELSE state

(***************************************************************************)
(* fetchAlerts.js: the upsert of one candidate and of one source's batch.  *)
(***************************************************************************)
\* Whether the INSERT of the candidate raises a constraint error (NOT NULL
\* on external_id and title, CHECK on severity).
InsertFails(cand) ==
    \/ cand.external_id = Undefined
    \/ cand.title = Undefined
    \/ cand.severity \notin Severities

Conflicts(rows, source_id, cand) ==
    {a \in rows : a.source_id = source_id /\ a.external_id = cand.external_id}

\* An upsert whose update leaves the processed flag as it is.
UpsertKeepsFlag(rows, source_id, cand, id) ==
    IF InsertFails(cand) THEN rows
    ELSE IF Conflicts(rows, source_id, cand) # {}
    THEN {IF a \in Conflicts(rows, source_id, cand)
          THEN [a EXCEPT !.title = cand.title,
                         !.description = OrElse(cand.description, Empty),
                         !.severity = cand.severity,
                         !.updated_date = cand.updated_date]
          ELSE a : a \in rows}
    ELSE rows \cup
         {[id |-> id, source_id |-> source_id, external_id |-> cand.external_id,
           title |-> cand.title, description |-> OrElse(cand.description, Empty),
           severity |-> cand.severity, published_date |-> cand.published_date,
           updated_date |-> cand.updated_date, url |-> cand.url,
           raw_data |-> cand.raw_data, is_processed |-> 0]}

\* An upsert whose update replaces the whole row but its id.
UpsertReplaces(rows, source_id, cand, id) ==
    IF InsertFails(cand) THEN rows
    ELSE IF Conflicts(rows, source_id, cand) # {}
    THEN {IF a \in Conflicts(rows, source_id, cand)
          THEN [a EXCEPT !.title = cand.title,
                         !.description = OrElse(cand.description, Empty),
                         !.severity = cand.severity,
                         !.published_date = cand.published_date,
                         !.updated_date = cand.updated_date,
                         !.url = cand.url,
                         !.raw_data = cand.raw_data,
                         !.is_processed = 0]
          ELSE a : a \in rows}
    ELSE rows \cup
         {[id |-> id, source_id |-> source_id, external_id |-> cand.external_id,
           title |-> cand.title, description |-> OrElse(cand.description, Empty),
           severity |-> cand.severity, published_date |-> cand.published_date,
           updated_date |-> cand.updated_date, url |-> cand.url,
           raw_data |-> cand.raw_data, is_processed |-> 0]}

\* INSERT ... ON CONFLICT(source_id, external_id) DO UPDATE SET ...: the
\* rows afterwards, the candidate taking the id `id` when it is inserted.
Upsert(rows, source_id, cand, id) ==
    IF InsertFails(cand) THEN rows
    ELSE IF Conflicts(rows, source_id, cand) # {}
    THEN {IF a \in Conflicts(rows, source_id, cand)
          THEN [a EXCEPT !.title = cand.title,
                         !.description = OrElse(cand.description, Empty),
                         !.severity = cand.severity,
                         !.updated_date = cand.updated_date,
                         !.is_processed = 0]
          ELSE a : a \in rows}
    ELSE rows \cup
         {[id |-> id, source_id |-> source_id, external_id |-> cand.external_id,
           title |-> cand.title, description |-> OrElse(cand.description, Empty),
           severity |-> cand.severity, published_date |-> cand.published_date,
           updated_date |-> cand.updated_date, url |-> cand.url,
           raw_data |-> cand.raw_data, is_processed |-> 0]}

\* The alert ids that occur somewhere in the state: a new random id is none
\* of them.
IdsInUse ==
    {a.id : a \in alerts} \cup {y.alert_id : y \in yara_rules}
        \cup {m.alert_id : m \in alert_mitre_mappings}
        \cup {a.id : a \in txn.alerts} \cup {y.alert_id : y \in txn.yara_rules}
        \cup {m.alert_id : m \in txn.alert_mitre_mappings}
        \cup UNION {{req[r].queue[i].id : i \in 1..Len(req[r].queue)} : r \in Slots}
        \cup UNION {req[r].ids : r \in Slots}
        \cup {req[r].id : r \in {q \in Slots : req[q].kind = "alert"}}

\* What crypto.randomUUID() may give to the row of an alert.
FreshIds == AlertIdPool \ IdsInUse

\* The random identifiers fetchRSSAlerts gives to items without guid and
\* link: the n-th one of the model.
DigitText == <<"1","2","3","4","5","6","7","8","9">>
Uuid(n) == <<"r", DigitText[n]>>
NeedsUuid(item) == OrElse(item.guid, OrElse(item.link, Undefined)) = Undefined
UuidsInUse ==
    {n \in AlertIdPool :
        \/ \E a \in alerts \cup txn.alerts : a.external_id = Uuid(n)
        \/ \E r \in Slots : \E i \in 1..Len(req[r].alerts) :
              req[r].alerts[i].external_id = Uuid(n)}

\* The identifiers drawn for the items of a feed, none of them one drawn
\* before: identifiers are only compared for equality, so the lowest unused
\* ones stand for random ones.
RECURSIVE DrawUuids(_, _)
DrawUuids(items, free) ==
    IF items = <<>> THEN <<>>
    ELSE IF ~NeedsUuid(Head(items)) THEN <<Undefined>> \o DrawUuids(Tail(items), free)
    ELSE LET n == CHOOSE m \in free : \A k \in free : m <= k
         IN  <<Uuid(n)>> \o DrawUuids(Tail(items), free \ {n})
EnoughUuids(items) ==
    Cardinality({i \in 1..Len(items) : NeedsUuid(items[i])})
        <= Cardinality(AlertIdPool \ UuidsInUse)

(***************************************************************************)
(* processAlerts.js: the batch processor.                                  *)
(***************************************************************************)
\* LIMIT of the SELECT of unprocessed alerts.
ProcessLimit == 2000

\* The results of SELECT * FROM alerts WHERE is_processed = 0 ORDER BY
\* published_date DESC LIMIT 2000: rows of equal date come in any order.
UnprocessedQueues ==
    LET rows == {a \in alerts : a.is_processed = 0}
        n == Cardinality(rows)
        sorted == {s \in [1..n -> rows] :
                     /\ \A i, j \in 1..n : i # j => s[i] # s[j]
                     /\ \A i, j \in 1..n :
                           i < j => s[i].published_date >= s[j].published_date}
    IN  {Substring(s, ProcessLimit) : s \in sorted}

\* The id given to a new rule row, none of those a row or a request holds:
\* ids of rules are only compared for equality, so the lowest unused one
\* stands for a random one.
RuleIdsInUse(rules) ==
    {y.id : y \in rules \cup txn.yara_rules}
        \cup {req[r].id : r \in {q \in Slots : req[q].kind \in {"put", "delete"}}}
NewRuleId(rules) ==
    CHOOSE i \in 1..(Cardinality(RuleIdsInUse(rules)) + 1) : i \notin RuleIdsInUse(rules)

\* INSERT INTO yara_rules, which resolves (dbOk) or rejects for a reason
\* of its own: that rejection and the UNIQUE failure on rule_name are
\* swallowed alike, and no row is written.
InsertRule(rules, alert, yaraRule, dbOk) ==
    IF ~dbOk \/ \E y \in rules : y.rule_name = yaraRule.name THEN rules
    ELSE rules \cup
         {[id |-> NewRuleId(rules), alert_id |-> alert.id, rule_name |-> yaraRule.name,
           rule_content |-> yaraRule.content, description |-> yaraRule.description,
           tags |-> yaraRule.tags]}

\* The id given to a new row of mitre_attack_techniques, none of those a
\* row, a mapping or a request holds: ids of techniques are only compared for
\* equality, so the lowest unused one stands for a random one.
TechniqueIdsInUse ==
    {t.id : t \in mitre_attack_techniques \cup txn.mitre_attack_techniques}
        \cup {m.technique_id : m \in alert_mitre_mappings \cup txn.alert_mitre_mappings}
        \cup {req[r].technique : r \in Slots}
NewTechniqueId ==
    CHOOSE i \in 1..(Cardinality(TechniqueIdsInUse) + 1) : i \notin TechniqueIdsInUse

\* The rows of SELECT * FROM mitre_attack_techniques WHERE technique_id = ?
TechniqueRows(technique_id) ==
    {t \in mitre_attack_techniques : t.technique_id = technique_id}

\* INSERT INTO alert_mitre_mappings of the technique row `technique` (its
\* id, the column technique_id of the mapping), which resolves (dbOk) or
\* rejects for a reason of its own: that rejection and the UNIQUE failure on
\* (alert_id, technique_id) are swallowed alike, and no row is written.
InsertMappingRow(maps, alert, technique, m, dbOk) ==
    IF ~dbOk \/ \E x \in maps : x.alert_id = alert.id /\ x.technique_id = technique
    THEN maps
    ELSE maps \cup {[alert_id |-> alert.id, technique_id |-> technique,
                     confidence_score |-> m.confidence_score]}

\* The mappings as the queries of the API read them, joined with the
\* technique rows: a mapping whose technique row is gone reads no technique.
Joined(maps, techniques) ==
    {[alert_id |-> m.alert_id,
      technique_id |-> IF \E t \in techniques : t.id = m.technique_id
                       THEN (CHOOSE t \in techniques : t.id = m.technique_id).technique_id
                       ELSE "null",
      confidence_score |-> m.confidence_score] : m \in maps}

\* UPDATE alerts SET is_processed = 1 WHERE id = ?
MarkProcessed(rows, id) ==
    {IF a.id = id THEN [a EXCEPT !.is_processed = 1] ELSE a : a \in rows}

(***************************************************************************)
(* deduplication.js: removeDuplicates.                                     *)
(***************************************************************************)
\* entries[0] of ORDER BY published_date DESC, id DESC for one external_id.
KeptEntry(rows, external_id) ==
    CHOOSE k \in {a \in rows : a.external_id = external_id} :
        \A a \in {b \in rows : b.external_id = external_id} :
            \/ k.published_date > a.published_date
            \/ (k.published_date = a.published_date /\ k.id >= a.id)

\* The external ids of SELECT external_id, COUNT(*) ... HAVING count > 1.
Duplicated(rows) ==
    {a.external_id : a \in {b \in rows :
        Cardinality({c \in rows : c.external_id = b.external_id}) > 1}}

\* The orders in which the SELECT may list them.
DuplicateLists(rows) ==
    LET n == Cardinality(Duplicated(rows))
    IN  {s \in [1..n -> Duplicated(rows)] : \A i, j \in 1..n : i # j => s[i] # s[j]}

\* The ids of entries.slice(1): all the entries of the external_id but the
\* first.
ToRemove(rows, external_id) ==
    IF \A a \in rows : a.external_id # external_id THEN {}
    ELSE {a.id : a \in {b \in rows : b.external_id = external_id}}
             \ {KeptEntry(rows, external_id).id}

\* DELETE FROM ... WHERE alert_id NOT IN (SELECT id FROM alerts)
WithoutOrphans(table, rows) == {x \in table : \E a \in rows : a.id = x.alert_id}

(***************************************************************************)
(* The handlers.  A handler runs until it awaits: each step below is what  *)
(* one handler does between two awaits, the effect of the statement it     *)
(* awaited and the code up to the next statement it issues.  All handlers  *)
(* share the one connection of the server.  A new request takes the        *)
(* lowest idle slot.                                                       *)
(***************************************************************************)
Idle(r) == req[r].pc = "idle"
InFlight(r) == ~Idle(r)
LowestIdle(r) == Idle(r) /\ \A q \in Slots : q < r => InFlight(q)

\* A handler that releases the lock when it answers 200 and keeps it when its
\* body threw.
FinishOnSuccess(r, response) ==
    /\ resp' = response
    /\ req' = [req EXCEPT ![r] = IdleReq]
    /\ jobState' = IF response.status = 200 THEN Finally(req[r].kind, jobState)
                   ELSE jobState

\* The handler of slot r sends its response and its finally block runs.
Finish(r, response) ==
    /\ resp' = response
    /\ req' = [req EXCEPT ![r] = IdleReq]
    /\ jobState' = Finally(req[r].kind, jobState)

\* A handler without a finally block sends its response.
Respond(r, response) ==
    /\ resp' = response
    /\ req' = [req EXCEPT ![r] = IdleReq]
    /\ UNCHANGED jobState

\* A handler that is refused the lock: response and finally block in the
\* step of the request.
Refuse(jobName, response, state) ==
    /\ resp' = response
    /\ jobState' = Finally(jobName, state)
    /\ UNCHANGED <<req, dbVars>>

\* The handler of slot r holds the lock and awaits its first statement.
Start(r, jobName, pc, state) ==
    /\ req' = [req EXCEPT ![r] = [IdleReq EXCEPT !.kind = jobName, !.pc = pc]]
    /\ jobState' = state
    /\ UNCHANGED <<resp, dbVars>>

\* processAlerts(db) is called: the handler waits for its SELECT.
CallProcessAlerts(r, kind, fetch) ==
    req' = [req EXCEPT ![r] = [IdleReq EXCEPT !.kind = kind, !.pc = "processAlerts",
                                              !.fetch = fetch]]

\* processAlerts(db) returned `results` to the handler of slot r: sync and
\* the single-alert reprocess respond (the latter has no finally block, and
\* no job is named alert), reprocess goes on to removeDuplicates.
ProcessAlertsReturns(r, results) ==
    IF req[r].kind = "reprocess"
    THEN /\ req' = [req EXCEPT ![r] = [IdleReq EXCEPT !.kind = "reprocess",
                                                      !.pc = "dedupAlerts",
                                                      !.process = results]]
         /\ UNCHANGED <<resp, jobState>>
    ELSE Finish(r, Response(req[r].kind, 0, 200, "", req[r].fetch, results, ZeroStats))

(***************************************************************************)
(* POST /api/jobs/sync and fetchAlerts.                                    *)
(***************************************************************************)
\* The request arrives: tryAcquireLock('sync'), then fetchAlerts awaits the
\* SELECT of the active sources.
PostJobsSync(r) ==
    /\ LowestIdle(r)
    /\ \E t \in Clock :
         LET lock == tryAcquireLock("sync", t)
         IN  IF ~lock.ok
             THEN Refuse("sync", Response("sync", 0, 409, lock.job, <<>>, <<>>, ZeroStats),
                         lock.state)
             ELSE Start(r, "sync", "sources", lock.state)
    /\ UNCHANGED envVars

\* The rows of SELECT * FROM alert_sources WHERE is_active = 1: each with
\* the last_checked_at it has when the SELECT resolves.
SelectedSources ==
    [i \in 1..Len(env.sources) |->
        [id |-> env.sources[i].id, name |-> env.sources[i].name,
         source_type |-> env.sources[i].source_type,
         last_checked_at |-> alert_sources[env.sources[i].id]]]

\* SELECT * FROM alert_sources WHERE is_active = 1 resolves, or rejects and
\* the handler answers 500.
SelectSources(r) ==
    /\ req[r].pc = "sources"
    /\ \E dbOk \in DbOutcomes("sources") : \E rolled \in AutoRollback(dbOk) :
         IF ~dbOk
         THEN /\ Finish(r, Response("sync", 0, 500, "", <<>>, <<>>, ZeroStats))
              /\ IoError(rolled)
         ELSE /\ IF env.sources = <<>>
                 THEN CallProcessAlerts(r, "sync", <<>>)
                 ELSE req' = [req EXCEPT ![r].pc = "fetchAlerts", ![r].srcs = SelectedSources]
              /\ UNCHANGED <<resp, jobState, dbVars>>
    /\ UNCHANGED envVars

\* The end of one turn of the loop of fetchAlerts in slot r: the INSERT of
\* the log resolved, the outcome is pushed to the results, and the loop goes
\* to the next source or fetchAlerts returns and processAlerts is called.
SourceDone(r, log, result) ==
    /\ processing_logs' = Append(processing_logs, log)
    /\ IF Tail(req[r].srcs) = <<>>
       THEN CallProcessAlerts(r, req[r].kind, Append(req[r].fetch, result))
       ELSE req' = [req EXCEPT ![r].pc = "fetchAlerts", ![r].srcs = Tail(req[r].srcs),
                               ![r].alerts = <<>>, ![r].n = 0, ![r].error = "",
                               ![r].at = NoTime,
                               ![r].fetch = Append(req[r].fetch, result)]

ErrorLog(source, message) ==
    [source_id |-> source.id, status |-> "error", alerts_found |-> 0,
     error_message |-> message]
ErrorResult(source, message) ==
    [source |-> source.name, status |-> "error", error |-> message]
SuccessLog(source, found) ==
    [source_id |-> source.id, status |-> "success", alerts_found |-> found,
     error_message |-> ""]
SuccessResult(source, found) ==
    [source |-> source.name, alerts |-> found, status |-> "success"]

\* The catch of the turn of a source: the INSERT of the error log is issued.
Caught(r, message) ==
    req' = [req EXCEPT ![r].pc = "logError", ![r].error = message]

\* One turn of the loop of fetchAlerts, the fetch: the source answers with
\* its entries and BEGIN TRANSACTION is issued, or the fetcher throws.
FetchSource(r) ==
    /\ req[r].pc = "fetchAlerts"
    /\ \E out \in env.served[Head(req[r].srcs).id], t \in Clock :
         LET source == Head(req[r].srcs)
             uuids == IF source.source_type = "rss"
                      THEN DrawUuids(out.items, AlertIdPool \ UuidsInUse) ELSE <<>>
         IN  IF ~out.ok THEN Caught(r, out.error)
             ELSE IF FetchThrows(source, out.items) THEN Caught(r, InvalidTimeValue)
             ELSE /\ source.source_type = "rss" => EnoughUuids(out.items)
                  /\ req' = [req EXCEPT
                               ![r].pc = "begin", ![r].n = 1,
                               ![r].alerts = FetchCandidates(source, out.items, t, uuids)]
    /\ UNCHANGED <<jobState, resp, dbVars, envVars>>

\* BEGIN TRANSACTION resolves and the first INSERT, or the COMMIT of an
\* empty batch, is issued; it rejects when a transaction is open.
Begin(r) ==
    /\ req[r].pc = "begin"
    /\ IF txn.open
       THEN Caught(r, NestedBegin) /\ UNCHANGED txn
       ELSE /\ txn' = OpenTxn
            /\ req' = [req EXCEPT ![r].pc = IF req[r].alerts = <<>> THEN "commit"
                                            ELSE "insert"]
    /\ UNCHANGED <<jobState, resp, tables, envVars>>

\* The INSERT ... ON CONFLICT of the next candidate: a rejection is caught
\* and the loop goes on.
InsertCandidate(r) ==
    /\ req[r].pc = "insert"
    /\ LET source == Head(req[r].srcs)
           cand == req[r].alerts[req[r].n]
           inserts == ~InsertFails(cand) /\ Conflicts(alerts, source.id, cand) = {}
       IN  \E id \in IF inserts THEN FreshIds ELSE {0} :
              alerts' = Upsert(alerts, source.id, cand, id)
    /\ req' = [req EXCEPT ![r].n = req[r].n + 1,
                          ![r].pc = IF req[r].n = Len(req[r].alerts) THEN "commit"
                                    ELSE "insert"]
    /\ UNCHANGED <<jobState, resp, yara_rules, alert_mitre_mappings, processing_logs,
                   alert_sources, mitre_attack_techniques, txn, envVars>>

\* COMMIT resolves and the UPDATE of alert_sources is issued, with the date
\* it binds; or it rejects (no transaction is open, or the write fails, the
\* transaction being left open or rolled back by sqlite) and ROLLBACK is
\* issued.
Commit(r) ==
    /\ req[r].pc = "commit"
    /\ \E dbOk \in DbOutcomes("commit"), t \in Clock :
         \E rolled \in AutoRollback(dbOk) :
           IF ~txn.open
           THEN /\ req' = [req EXCEPT ![r].pc = "rollback", ![r].error = NoCommit]
                /\ UNCHANGED dbVars
           ELSE IF ~dbOk
           THEN /\ req' = [req EXCEPT ![r].pc = "rollback", ![r].error = DbError]
                /\ IoError(rolled)
           ELSE /\ req' = [req EXCEPT ![r].pc = "updateSource", ![r].at = t]
                /\ txn' = NoTxn
                /\ UNCHANGED tables
    /\ UNCHANGED <<jobState, resp, envVars>>

\* ROLLBACK resolves, undoing every statement run on the connection since
\* BEGIN, and the error of the COMMIT is thrown; or it rejects, no
\* transaction being open, and its own error is thrown.
Rollback(r) ==
    /\ req[r].pc = "rollback"
    /\ IF txn.open
       THEN /\ RolledBack
            /\ Caught(r, req[r].error)
       ELSE /\ Caught(r, NoRollback)
            /\ UNCHANGED dbVars
    /\ UNCHANGED <<jobState, resp, envVars>>

\* UPDATE alert_sources SET last_checked_at = ? resolves, storing the date
\* read when it was issued, and the INSERT of the success log is issued; or
\* it rejects and the catch of the turn takes the error.
UpdateSource(r) ==
    /\ req[r].pc = "updateSource"
    /\ \E dbOk \in DbOutcomes("updateSource") : \E rolled \in AutoRollback(dbOk) :
         IF dbOk
         THEN /\ alert_sources' =
                    [alert_sources EXCEPT ![Head(req[r].srcs).id] = req[r].at]
              /\ req' = [req EXCEPT ![r].pc = "logSuccess", ![r].at = NoTime]
              /\ UNCHANGED <<alerts, yara_rules, alert_mitre_mappings, processing_logs,
                             mitre_attack_techniques, txn>>
         ELSE Caught(r, DbError) /\ IoError(rolled)
    /\ UNCHANGED <<jobState, resp, envVars>>

\* The INSERT of the success log resolves: the turn of the source ends.  Or
\* it rejects and the catch of the turn takes the error, last_checked_at
\* being written by then.
LogSuccess(r) ==
    /\ req[r].pc = "logSuccess"
    /\ \E dbOk \in DbOutcomes("logSuccess") : \E rolled \in AutoRollback(dbOk) :
         IF dbOk
         THEN /\ SourceDone(r, SuccessLog(Head(req[r].srcs), Len(req[r].alerts)),
                            SuccessResult(Head(req[r].srcs), Len(req[r].alerts)))
              /\ UNCHANGED <<alerts, yara_rules, alert_mitre_mappings, alert_sources,
                             mitre_attack_techniques, txn>>
         ELSE Caught(r, DbError) /\ IoError(rolled)
    /\ UNCHANGED <<jobState, resp, envVars>>

\* The INSERT of the error log resolves: the turn of the source ends.  Or it
\* rejects: the statement is in the catch of the turn, so the error leaves
\* the loop and fetchAlerts, no other source is fetched and the handler
\* answers 500.
LogError(r) ==
    /\ req[r].pc = "logError"
    /\ \E dbOk \in DbOutcomes("logError") : \E rolled \in AutoRollback(dbOk) :
         IF dbOk
         THEN /\ SourceDone(r, ErrorLog(Head(req[r].srcs), req[r].error),
                            ErrorResult(Head(req[r].srcs), req[r].error))
              /\ UNCHANGED <<jobState, resp, alerts, yara_rules, alert_mitre_mappings,
                             alert_sources, mitre_attack_techniques, txn>>
         ELSE /\ Finish(r, Response(req[r].kind, 0, 500, "", <<>>, <<>>, ZeroStats))
              /\ IoError(rolled)
    /\ UNCHANGED envVars

(***************************************************************************)
(* processAlerts.                                                          *)
(***************************************************************************)
\* The SELECT of processAlerts resolves and the first DELETE is issued (or
\* it rejects: the handler's catch).
ProcessSelect(r) ==
    /\ req[r].pc = "processAlerts"
    /\ \E dbOk \in DbOutcomes("unprocessed"), queue \in UnprocessedQueues :
         \E rolled \in AutoRollback(dbOk) :
           IF ~dbOk
           THEN /\ Finish(r, Response(req[r].kind, 0, 500, "", <<>>, <<>>, ZeroStats))
                /\ IoError(rolled)
           ELSE IF queue = <<>>
           THEN ProcessAlertsReturns(r, <<>>) /\ UNCHANGED dbVars
           ELSE /\ req' = [req EXCEPT ![r].pc = "deleteRules", ![r].queue = queue]
                /\ UNCHANGED <<resp, jobState, dbVars>>
    /\ UNCHANGED envVars

\* The turn of the alert ends with `result`: the loop goes to the next
\* alert, or processAlerts returns.
TurnDone(r, result) ==
    IF Tail(req[r].queue) = <<>>
    THEN ProcessAlertsReturns(r, Append(req[r].process, result))
    ELSE /\ req' = [req EXCEPT ![r].pc = "deleteRules", ![r].queue = Tail(req[r].queue),
                               ![r].techs = <<>>, ![r].technique = 0, ![r].at = NoTime,
                               ![r].process = Append(req[r].process, result)]
         /\ UNCHANGED <<resp, jobState>>

\* A loop of processAlerts without the try/catch inside it: the error of
\* one turn ends the loop.
TurnCaughtAborts(r, message) ==
    ProcessAlertsReturns(r, Append(req[r].process,
                                   [alert_id |-> Head(req[r].queue).id,
                                    status |-> "error", error |-> message]))

\* The catch of the turn: the alert is reported as an error.
TurnCaught(r, message) ==
    TurnDone(r, [alert_id |-> Head(req[r].queue).id, status |-> "error",
                 error |-> message])

\* DELETE FROM yara_rules WHERE alert_id = ? resolves and the DELETE of the
\* mappings is issued; or it rejects and the catch of the turn takes the
\* error.
DeleteOldRules(r) ==
    /\ req[r].pc = "deleteRules"
    /\ \E dbOk \in DbOutcomes("process") : \E rolled \in AutoRollback(dbOk) :
         IF ~dbOk
         THEN TurnCaught(r, DbError) /\ IoError(rolled)
         ELSE /\ yara_rules' = {y \in yara_rules : y.alert_id # Head(req[r].queue).id}
              /\ req' = [req EXCEPT ![r].pc = "deleteMappings"]
              /\ UNCHANGED <<resp, jobState, alerts, alert_mitre_mappings,
                             processing_logs, alert_sources, mitre_attack_techniques, txn>>
    /\ UNCHANGED envVars

\* DELETE FROM alert_mitre_mappings WHERE alert_id = ? resolves; the rule
\* is generated from the row as selected and its INSERT is issued.  Or the
\* DELETE rejects.
DeleteOldMappings(r) ==
    /\ req[r].pc = "deleteMappings"
    /\ \E dbOk \in DbOutcomes("process") : \E rolled \in AutoRollback(dbOk) :
         IF ~dbOk
         THEN TurnCaught(r, DbError) /\ IoError(rolled)
         ELSE /\ alert_mitre_mappings' =
                    {m \in alert_mitre_mappings : m.alert_id # Head(req[r].queue).id}
              /\ \E t \in Clock : req' = [req EXCEPT ![r].pc = "insertRule", ![r].at = t]
              /\ UNCHANGED <<resp, jobState, alerts, yara_rules, processing_logs,
                             alert_sources, mitre_attack_techniques, txn>>
    /\ UNCHANGED envVars

\* The mapping loop goes to its next technique, or the UPDATE that marks the
\* alert is issued.
NextTechnique(r, techs) ==
    req' = [req EXCEPT ![r].techs = techs, ![r].technique = 0,
                       ![r].pc = IF techs = <<>> THEN "markProcessed"
                                 ELSE "selectTechnique"]

\* INSERT INTO yara_rules resolves, or rejects, for the rule_name or for
\* another reason, and is swallowed; the alert is mapped and the SELECT of
\* the first technique is issued.
InsertYaraRule(r) ==
    /\ req[r].pc = "insertRule"
    /\ \E dbOk \in DbOutcomes("process") : \E rolled \in AutoRollback(dbOk) :
         IF rolled THEN RolledBack
         ELSE /\ yara_rules' = InsertRule(yara_rules, Head(req[r].queue),
                                          generateYaraRule(Head(req[r].queue), req[r].at),
                                          dbOk)
              /\ UNCHANGED <<alerts, alert_mitre_mappings, processing_logs,
                             alert_sources, mitre_attack_techniques, txn>>
    /\ NextTechnique(r, mapToMitre(Head(req[r].queue)))
    /\ UNCHANGED <<jobState, resp, envVars>>

\* SELECT * FROM mitre_attack_techniques WHERE technique_id = ? resolves:
\* the INSERT of the mapping is issued with the id of the row read, or the
\* INSERT of the technique with a new id.  Or the SELECT rejects.
SelectTechnique(r) ==
    /\ req[r].pc = "selectTechnique"
    /\ \E dbOk \in DbOutcomes("process") : \E rolled \in AutoRollback(dbOk) :
         IF ~dbOk
         THEN TurnCaught(r, DbError) /\ IoError(rolled)
         ELSE /\ LET rows == TechniqueRows(Head(req[r].techs).technique_id)
                 IN  req' = IF rows # {}
                            THEN [req EXCEPT ![r].pc = "insertMapping",
                                             ![r].technique = (CHOOSE t \in rows : TRUE).id]
                            ELSE [req EXCEPT ![r].pc = "insertTechnique",
                                             ![r].technique = NewTechniqueId]
              /\ UNCHANGED <<resp, jobState, dbVars>>
    /\ UNCHANGED envVars

\* INSERT INTO mitre_attack_techniques resolves and the INSERT of the
\* mapping is issued with the new id; or it rejects, the technique_id being
\* there by now or the write failing, and the catch of the turn takes the
\* error.
InsertTechnique(r) ==
    /\ req[r].pc = "insertTechnique"
    /\ \E dbOk \in DbOutcomes("process") : \E rolled \in AutoRollback(dbOk) :
         IF ~dbOk
         THEN TurnCaught(r, DbError) /\ IoError(rolled)
         ELSE IF TechniqueRows(Head(req[r].techs).technique_id) # {}
         THEN TurnCaught(r, TechniqueExists) /\ UNCHANGED dbVars
         ELSE /\ mitre_attack_techniques' =
                     mitre_attack_techniques \cup
                         {[id |-> req[r].technique,
                           technique_id |-> Head(req[r].techs).technique_id]}
              /\ req' = [req EXCEPT ![r].pc = "insertMapping"]
              /\ UNCHANGED <<resp, jobState, alerts, yara_rules, alert_mitre_mappings,
                             processing_logs, alert_sources, txn>>
    /\ UNCHANGED envVars

\* INSERT INTO alert_mitre_mappings resolves, or rejects, for the key or
\* for another reason, and is swallowed: the loop goes to the next technique.
InsertMapping(r) ==
    /\ req[r].pc = "insertMapping"
    /\ \E dbOk \in DbOutcomes("process") : \E rolled \in AutoRollback(dbOk) :
         IF rolled THEN RolledBack
         ELSE /\ alert_mitre_mappings' =
                    InsertMappingRow(alert_mitre_mappings, Head(req[r].queue),
                                     req[r].technique, Head(req[r].techs), dbOk)
              /\ UNCHANGED <<alerts, yara_rules, processing_logs, alert_sources,
                             mitre_attack_techniques, txn>>
    /\ NextTechnique(r, Tail(req[r].techs))
    /\ UNCHANGED <<jobState, resp, envVars>>

\* UPDATE alerts SET is_processed = 1 WHERE id = ? resolves: the alert is
\* reported as processed.  Or it rejects: the alert is reported as an error.
MarkAlertProcessed(r) ==
    /\ req[r].pc = "markProcessed"
    /\ \E dbOk \in DbOutcomes("process") : \E rolled \in AutoRollback(dbOk) :
         IF ~dbOk
         THEN TurnCaught(r, DbError) /\ IoError(rolled)
         ELSE /\ alerts' = MarkProcessed(alerts, Head(req[r].queue).id)
              /\ TurnDone(r, [alert_id |-> Head(req[r].queue).id, status |-> "processed"])
              /\ UNCHANGED <<yara_rules, alert_mitre_mappings, processing_logs,
                             alert_sources, mitre_attack_techniques, txn>>
    /\ UNCHANGED envVars

(***************************************************************************)
(* POST /api/jobs/deduplicate and removeDuplicates.                        *)
(***************************************************************************)
PostJobsDeduplicate(r) ==
    /\ LowestIdle(r)
    /\ \E t \in Clock :
         LET lock == tryAcquireLock("deduplicate", t)
         IN  IF ~lock.ok
             THEN Refuse("deduplicate",
                         Response("deduplicate", 0, 409, lock.job, <<>>, <<>>, ZeroStats),
                         lock.state)
             ELSE Start(r, "deduplicate", "dedupAlerts", lock.state)
    /\ UNCHANGED envVars

\* Step 1 goes on with the duplicates left and the ids collected: the
\* SELECT of the next duplicate's entries is issued, or the DELETE of the
\* ids, or, with nothing to delete, the DELETE of step 2.
DedupGoesOn(r, dups, ids) ==
    req' = [req EXCEPT ![r].dups = dups, ![r].ids = ids,
                       ![r].pc = IF dups # <<>> THEN "dedupEntries"
                                 ELSE IF ids # {} THEN "dedupDelete"
                                 ELSE "dedupRules"]

\* The catch of step 1: the step is given up and the DELETE of step 2 is
\* issued.
DedupCaught(r) ==
    req' = [req EXCEPT ![r].dups = <<>>, ![r].ids = {}, ![r].pc = "dedupRules"]

\* removeDuplicates, step 1: the SELECT of the duplicated external ids
\* resolves, or rejects.
DedupAlerts(r) ==
    /\ req[r].pc = "dedupAlerts"
    /\ \E dbOk \in DbOutcomes("deduplicate"), dups \in DuplicateLists(alerts) :
         \E rolled \in AutoRollback(dbOk) :
           IF dbOk THEN DedupGoesOn(r, dups, {}) /\ UNCHANGED dbVars
           ELSE DedupCaught(r) /\ IoError(rolled)
    /\ UNCHANGED <<jobState, resp, envVars>>

\* Step 1: the SELECT of the entries of one duplicated external id
\* resolves: all but the first are marked for deletion.
DedupEntries(r) ==
    /\ req[r].pc = "dedupEntries"
    /\ \E dbOk \in DbOutcomes("deduplicate") : \E rolled \in AutoRollback(dbOk) :
         IF dbOk
         THEN /\ DedupGoesOn(r, Tail(req[r].dups),
                             req[r].ids \cup ToRemove(alerts, Head(req[r].dups)))
              /\ UNCHANGED dbVars
         ELSE DedupCaught(r) /\ IoError(rolled)
    /\ UNCHANGED <<jobState, resp, envVars>>

\* Step 1: DELETE FROM alerts WHERE id IN (...) resolves, alertsRemoved
\* being the rows it deleted; or it rejects.
DedupDelete(r) ==
    /\ req[r].pc = "dedupDelete"
    /\ \E dbOk \in DbOutcomes("deduplicate") : \E rolled \in AutoRollback(dbOk) :
         IF dbOk
         THEN /\ alerts' = {a \in alerts : a.id \notin req[r].ids}
              /\ req' = [req EXCEPT ![r].pc = "dedupRules", ![r].ids = {},
                                    ![r].stats.alertsRemoved =
                                        Cardinality({a \in alerts : a.id \in req[r].ids})]
              /\ UNCHANGED <<yara_rules, alert_mitre_mappings, processing_logs,
                             alert_sources, mitre_attack_techniques, txn>>
         ELSE DedupCaught(r) /\ IoError(rolled)
    /\ UNCHANGED <<jobState, resp, envVars>>

\* A step 2 that also resets the processed flag of every alert.
DedupRulesResets(r) ==
    /\ req[r].pc = "dedupRules"
    /\ \E dbOk \in DbOutcomes("deduplicate") : \E rolled \in AutoRollback(dbOk) :
         IF dbOk
         THEN LET kept == WithoutOrphans(yara_rules, alerts)
              IN  /\ yara_rules' = kept
                  /\ alerts' = {[a EXCEPT !.is_processed = 0] : a \in alerts}
                  /\ req' = [req EXCEPT ![r].pc = "dedupMappings",
                                        ![r].stats.rulesRemoved =
                                            Cardinality(yara_rules) - Cardinality(kept)]
                  /\ UNCHANGED <<alert_mitre_mappings, processing_logs,
                                 alert_sources, mitre_attack_techniques, txn>>
         ELSE /\ req' = [req EXCEPT ![r].pc = "dedupMappings"]
              /\ IoError(rolled)
    /\ UNCHANGED <<jobState, resp, envVars>>

\* removeDuplicates, step 2: the orphaned rules are deleted.
DedupRules(r) ==
    /\ req[r].pc = "dedupRules"
    /\ \E dbOk \in DbOutcomes("deduplicate") : \E rolled \in AutoRollback(dbOk) :
         IF dbOk
         THEN LET kept == WithoutOrphans(yara_rules, alerts)
              IN  /\ yara_rules' = kept
                  /\ req' = [req EXCEPT ![r].pc = "dedupMappings",
                                        ![r].stats.rulesRemoved =
                                            Cardinality(yara_rules) - Cardinality(kept)]
                  /\ UNCHANGED <<alerts, alert_mitre_mappings, processing_logs,
                                 alert_sources, mitre_attack_techniques, txn>>
         ELSE /\ req' = [req EXCEPT ![r].pc = "dedupMappings"]
              /\ IoError(rolled)
    /\ UNCHANGED <<jobState, resp, envVars>>

\* removeDuplicates, step 3: the orphaned mappings are deleted, the stats
\* are returned and the handler responds.
DedupMappings(r) ==
    /\ req[r].pc = "dedupMappings"
    /\ \E dbOk \in DbOutcomes("deduplicate") : \E rolled \in AutoRollback(dbOk) :
         IF dbOk
         THEN LET kept == WithoutOrphans(alert_mitre_mappings, alerts)
                  stats == [req[r].stats EXCEPT !.mappingsRemoved =
                               Cardinality(alert_mitre_mappings) - Cardinality(kept)]
              IN  /\ alert_mitre_mappings' = kept
                  /\ Finish(r, Response(req[r].kind, 0, 200, "", <<>>, req[r].process,
                                        stats))
                  /\ UNCHANGED <<alerts, yara_rules, processing_logs, alert_sources,
                                 mitre_attack_techniques, txn>>
         ELSE /\ Finish(r, Response(req[r].kind, 0, 200, "", <<>>, req[r].process,
                                    req[r].stats))
              /\ IoError(rolled)
    /\ UNCHANGED envVars

(***************************************************************************)
(* POST /api/jobs/reprocess                                                *)
(***************************************************************************)
\* The request arrives: tryAcquireLock('reprocess'), then the handler
\* awaits the UPDATE that resets every alert.
PostJobsReprocess(r) ==
    /\ LowestIdle(r)
    /\ \E t \in Clock :
         LET lock == tryAcquireLock("reprocess", t)
         IN  IF ~lock.ok
             THEN Refuse("reprocess",
                         Response("reprocess", 0, 409, lock.job, <<>>, <<>>, ZeroStats),
                         lock.state)
             ELSE Start(r, "reprocess", "resetAll", lock.state)
    /\ UNCHANGED envVars

\* UPDATE alerts SET is_processed = 0 resolves and processAlerts is called,
\* or it rejects and the handler answers 500.
ResetAll(r) ==
    /\ req[r].pc = "resetAll"
    /\ \E dbOk \in DbOutcomes("reset") : \E rolled \in AutoRollback(dbOk) :
         IF ~dbOk
         THEN /\ Finish(r, Response("reprocess", 0, 500, "", <<>>, <<>>, ZeroStats))
              /\ IoError(rolled)
         ELSE /\ alerts' = {[a EXCEPT !.is_processed = 0] : a \in alerts}
              /\ CallProcessAlerts(r, "reprocess", <<>>)
              /\ UNCHANGED <<resp, jobState, yara_rules, alert_mitre_mappings,
                             processing_logs, alert_sources, mitre_attack_techniques, txn>>
    /\ UNCHANGED envVars

(***************************************************************************)
(* POST /api/alerts/:id/reprocess                                          *)
(***************************************************************************)
\* The request arrives: the handler awaits the UPDATE that resets the alert.
PostAlertReprocess(r, id) ==
    /\ LowestIdle(r)
    /\ req' = [req EXCEPT ![r] = [IdleReq EXCEPT !.kind = "alert", !.pc = "resetOne",
                                                 !.id = id]]
    /\ UNCHANGED <<jobState, resp, dbVars, envVars>>

\* UPDATE alerts SET is_processed = 0 WHERE id = ? resolves (or rejects: the
\* handler's catch); then the lock is looked at: the handler answers 409 or
\* calls processAlerts.
ResetOne(r) ==
    /\ req[r].pc = "resetOne"
    /\ \E dbOk \in DbOutcomes("reset") : \E rolled \in AutoRollback(dbOk) :
         IF ~dbOk
         THEN /\ Respond(r, Response("alert", req[r].id, 500, "", <<>>, <<>>, ZeroStats))
              /\ IoError(rolled)
         ELSE /\ alerts' = {IF a.id = req[r].id THEN [a EXCEPT !.is_processed = 0] ELSE a
                            : a \in alerts}
              /\ IF jobState.isRunning
                 THEN Respond(r, Response("alert", req[r].id, 409, jobState.currentJob,
                                         <<>>, <<>>, ZeroStats))
                 ELSE /\ CallProcessAlerts(r, "alert", <<>>)
                      /\ UNCHANGED <<resp, jobState>>
              /\ UNCHANGED <<yara_rules, alert_mitre_mappings, processing_logs,
                             alert_sources, mitre_attack_techniques, txn>>
    /\ UNCHANGED envVars

(***************************************************************************)
(* PUT and DELETE /api/yara-rules/:id                                      *)
(***************************************************************************)
\* What the body of an update-rule request may carry: no rule_content or an
\* edited one, no is_locked or 0 or 1.
NoContent == [absent |-> TRUE]
EditedContent == [rule |-> "edited by the operator"]
NoFlag == -1
RuleUpdates ==
    [rule_content : {NoContent, EditedContent}, is_locked : {NoFlag, 0, 1}]

\* The ids an update-rule or delete-rule request may name.
RuleIdPool == 1..MaxAlertIds

\* The request arrives: the handler awaits the SELECT of the rule.
PutYaraRule(r, id, body) ==
    /\ LowestIdle(r)
    /\ req' = [req EXCEPT ![r] = [IdleReq EXCEPT !.kind = "put", !.pc = "putSelect",
                                                 !.id = id, !.body = body]]
    /\ UNCHANGED <<jobState, resp, dbVars, envVars>>

\* SELECT * FROM yara_rules WHERE id = ? resolves: 404 when there is no such
\* rule, else the UPDATE is issued.
PutSelect(r) ==
    /\ req[r].pc = "putSelect"
    /\ IF \A y \in yara_rules : y.id # req[r].id
       THEN Respond(r, Response("put", req[r].id, 404, "", <<>>, <<>>, ZeroStats))
       ELSE /\ req' = [req EXCEPT ![r].pc = "putUpdate"]
            /\ UNCHANGED <<resp, jobState>>
    /\ UNCHANGED <<dbVars, envVars>>

\* The UPDATE names the column is_locked, which yara_rules does not have:
\* it rejects (no such column: is_locked) whatever the body carries,
\* nothing is written and the handler answers 500.
PutUpdate(r) ==
    /\ req[r].pc = "putUpdate"
    /\ ~lockColumn
    /\ Respond(r, Response("put", req[r].id, 500, "", <<>>, <<>>, ZeroStats))
    /\ UNCHANGED <<dbVars, envVars>>

\* The request arrives: the handler awaits the SELECT of the rule.
DeleteYaraRule(r, id) ==
    /\ LowestIdle(r)
    /\ req' = [req EXCEPT ![r] = [IdleReq EXCEPT !.kind = "delete", !.pc = "deleteSelect",
                                                 !.id = id]]
    /\ UNCHANGED <<jobState, resp, dbVars, envVars>>

\* SELECT * FROM yara_rules WHERE id = ? resolves: 404 when there is no such
\* rule, 403 when rule.is_locked of the row read is truthy, else the DELETE
\* is issued.
DeleteSelect(r) ==
    /\ req[r].pc = "deleteSelect"
    /\ IF \A y \in yara_rules : y.id # req[r].id
       THEN Respond(r, Response("delete", req[r].id, 404, "", <<>>, <<>>, ZeroStats))
       ELSE IF \E y \in yara_rules : y.id = req[r].id /\ IsLocked(y)
       THEN Respond(r, Response("delete", req[r].id, 403, "", <<>>, <<>>, ZeroStats))
       ELSE /\ req' = [req EXCEPT ![r].pc = "deleteRule"]
            /\ UNCHANGED <<resp, jobState>>
    /\ UNCHANGED <<dbVars, envVars>>

\* DELETE FROM yara_rules WHERE id = ? resolves, whatever the number of rows
\* it deleted.
DeleteRule(r) ==
    /\ req[r].pc = "deleteRule"
    /\ yara_rules' = {y \in yara_rules : y.id # req[r].id}
    /\ Respond(r, Response("delete", req[r].id, 200, "", <<>>, <<>>, ZeroStats))
    /\ UNCHANGED <<alerts, alert_mitre_mappings, processing_logs, alert_sources,
                   mitre_attack_techniques, txn, envVars>>


(***************************************************************************)
(* The specifications.  Each one fixes an environment (what the sources    *)
(* may serve, what the clock may read, whether a database statement may    *)
(* reject) and the requests that arrive.                                   *)
(***************************************************************************)
NoSource == [s \in SourceIds |-> {Served(<<>>)}]

\* After construction: the lock free, the tables as initializeDatabase
\* leaves them, empty but for the seeded sources.
InitWith(environment) ==
    /\ jobState = releaseLock
    /\ alerts = {}
    /\ yara_rules = {}
    /\ alert_mitre_mappings = {}
    /\ processing_logs = <<>>
    /\ alert_sources = [s \in SourceIds |-> NoTime]
    /\ mitre_attack_techniques = {}
    /\ txn = NoTxn
    /\ env = environment
    /\ now = 1
    /\ req = [r \in Slots |-> IdleReq]
    /\ resp = NoResponse

AllIdle == \A r \in Slots : Idle(r)

\* The bound of the specifications on the sync jobs of a run: a sync job
\* gets the lock only while fewer than MaxSyncs runs of fetchAlerts have
\* written their log entries.
SyncsLeft == ~jobState.isRunning => Len(processing_logs) < MaxSyncs * Len(env.sources)

\* Time passes.
Tick ==
    /\ now < MaxTime
    /\ now' = now + 1
    /\ UNCHANGED <<jobState, dbVars, env, req, resp>>

\* The rows of alert_sources with is_active = 1, in the order of the table.
Active(ids) == SelectSeq(SeedSources, LAMBDA s : s.id \in ids)

\* The statements of fetchAlerts outside its catch blocks, the statements
\* of a turn of processAlerts and the first statements of the three steps of
\* removeDuplicates.
FetchSteps(r) ==
    \/ SelectSources(r)
    \/ FetchSource(r)
    \/ Begin(r)
    \/ Commit(r)
    \/ UpdateSource(r)
    \/ LogSuccess(r)

TurnSteps(r) ==
    \/ DeleteOldRules(r)
    \/ DeleteOldMappings(r)
    \/ InsertYaraRule(r)
    \/ SelectTechnique(r)
    \/ InsertTechnique(r)
    \/ InsertMapping(r)
    \/ MarkAlertProcessed(r)

DedupSteps(r) ==
    \/ DedupAlerts(r)
    \/ DedupRules(r)
    \/ DedupMappings(r)

\* ---- Requests of the jobs and of single alerts arrive at any moment, one
\* while another is in flight or not; one source is active and serves no
\* entry, and the first statement of a handler and the SELECT of
\* processAlerts may reject.
LockEnv ==
    [sources |-> Active({3}), served |-> NoSource,
     faults |-> {"sources", "reset", "unprocessed"}]

NextLock ==
    \E r \in Slots :
        \/ SyncsLeft /\ PostJobsSync(r)
        \/ PostJobsDeduplicate(r)
        \/ PostJobsReprocess(r)
        \/ ResetAll(r)
        \/ \E id \in AlertIdPool : PostAlertReprocess(r, id)
        \/ ResetOne(r)
        \/ FetchSteps(r)
        \/ LogError(r)
        \/ ProcessSelect(r)
        \/ DedupSteps(r)

SpecLock == InitWith(LockEnv) /\ [][NextLock]_vars

\* ---- Sync jobs one after the other; two sources are active, the fetch
\* of each may fail, the COMMIT of its batch may reject and so may the
\* INSERT of its error log; the feed may hold an item whose INSERT fails, an
\* item without guid and link, an item without a date and an item whose
\* pubDate is no date.
IngestEnv ==
    [sources |-> Active({1, 3}),
     served |-> [NoSource EXCEPT
                    ![1] = {Failure("Status code 503"), Served(<<RssItem3, RssItem1>>),
                            Served(<<RssItem4>>), Served(<<RssItem1, RssItem5>>),
                            Served(<<RssItem6>>)},
                    ![3] = {Failure("NIST API failed: 503 Service Unavailable - "),
                            Served(<<Cve1>>)}],
     faults |-> {"commit", "logError"}]

NextIngest ==
    \E r \in Slots :
        \/ AllIdle /\ SyncsLeft /\ PostJobsSync(r)
        \/ FetchSteps(r)
        \/ InsertCandidate(r)
        \/ Rollback(r)
        \/ LogError(r)
        \/ ProcessSelect(r)
        \/ TurnSteps(r)

SpecIngest == InitWith(IngestEnv) /\ [][NextIngest]_vars

\* ---- Sync jobs one after the other; two sources are active, the fetch of
\* the feed may fail, and the UPDATE of last_checked_at and the INSERT of the
\* success log may reject.
LogEnv ==
    [sources |-> Active({1, 3}),
     served |-> [NoSource EXCEPT
                    ![1] = {Failure("Status code 503"), Served(<<RssItem1>>)},
                    ![3] = {Served(<<Cve1>>)}],
     faults |-> {"updateSource", "logSuccess"}]

NextLog ==
    \/ \E r \in Slots :
          \/ AllIdle /\ SyncsLeft /\ PostJobsSync(r)
          \/ FetchSteps(r)
          \/ InsertCandidate(r)
          \/ LogError(r)
          \/ ProcessSelect(r)
          \/ TurnSteps(r)
    \/ Tick

SpecLog == InitWith(LogEnv) /\ [][NextLog]_vars

\* ---- Sync jobs one after the other; the sources serve an entry and, later
\* or in the same batch, a revision of it.
UpsertEnv ==
    [sources |-> Active({1, 3}),
     served |-> [NoSource EXCEPT
                    ![1] = {Served(b) : b \in Batches({RssItem1, RssItem2})},
                    ![3] = {Served(<<Cve1>>), Served(<<Cve3>>)}],
     faults |-> {}]

NextUpsert ==
    \E r \in Slots :
        \/ AllIdle /\ SyncsLeft /\ PostJobsSync(r)
        \/ FetchSteps(r)
        \/ InsertCandidate(r)
        \/ ProcessSelect(r)
        \/ TurnSteps(r)

SpecUpsert == InitWith(UpsertEnv) /\ [][NextUpsert]_vars

\* ---- Sync and deduplicate jobs one after the other; the two sources
\* serve entries that share an external_id, with equal and with different
\* published dates; a statement of removeDuplicates may reject.
DedupEnv ==
    [sources |-> Active({1, 3}),
     served |-> [NoSource EXCEPT
                    ![1] = {Served(<<RssItem1>>), Served(<<RssItem2>>)},
                    ![3] = {Served(<<Cve1>>), Served(<<Cve2>>)}],
     faults |-> {"deduplicate"}]

NextDedup ==
    \E r \in Slots :
        \/ AllIdle /\ SyncsLeft /\ PostJobsSync(r)
        \/ AllIdle /\ PostJobsDeduplicate(r)
        \/ FetchSteps(r)
        \/ InsertCandidate(r)
        \/ ProcessSelect(r)
        \/ TurnSteps(r)
        \/ DedupSteps(r)
        \/ DedupEntries(r)
        \/ DedupDelete(r)

SpecDedup == InitWith(DedupEnv) /\ [][NextDedup]_vars

\* ---- Update-rule and delete-rule requests arrive between jobs, one
\* request after the other.
RulesEnv ==
    [sources |-> Active({3}),
     served |-> [NoSource EXCEPT ![3] = {Served(<<Cve1>>)}],
     faults |-> {}]

NextRules ==
    \/ \E r \in Slots :
        \/ AllIdle /\ SyncsLeft /\ PostJobsSync(r)
        \/ AllIdle /\ PostJobsReprocess(r)
        \/ ResetAll(r)
        \/ \E id \in AlertIdPool : AllIdle /\ PostAlertReprocess(r, id)
        \/ ResetOne(r)
        \/ FetchSteps(r)
        \/ InsertCandidate(r)
        \/ ProcessSelect(r)
        \/ TurnSteps(r)
        \/ DedupSteps(r)
    \/ \E r \in Slots :
        \/ \E id \in RuleIdPool, body \in RuleUpdates : AllIdle /\ PutYaraRule(r, id, body)
        \/ \E id \in RuleIdPool : AllIdle /\ DeleteYaraRule(r, id)
        \/ PutSelect(r)
        \/ PutUpdate(r)
        \/ DeleteSelect(r)
        \/ DeleteRule(r)
    \/ Tick

SpecRules == InitWith(RulesEnv) /\ [][NextRules]_vars


(***************************************************************************)
(* The job lock (SpecLock).                                                *)
(***************************************************************************)
JobNames == {"sync", "deduplicate", "reprocess"}

\* The program counters of a turn of the loop of fetchAlerts, of a turn of
\* the loop of processAlerts and of removeDuplicates.
FetchPcs ==
    {"fetchAlerts", "begin", "insert", "commit", "rollback", "updateSource",
     "logSuccess", "logError"}
TurnPcs ==
    {"deleteRules", "deleteMappings", "insertRule", "selectTechnique",
     "insertTechnique", "insertMapping", "markProcessed"}
DedupPcs == {"dedupAlerts", "dedupEntries", "dedupDelete", "dedupRules", "dedupMappings"}

\* The handler of slot r takes a step.
Steps(r) == req'[r] # req[r]

\* The handler of slot r is inside the body of a job.
JobBody(r) == InFlight(r) /\ req[r].kind \in JobNames

\* This step answers a request: every response flips the parity.
Responds == resp'.n # resp.n

\* A request of the operation op arrives in this step: its handler starts in
\* an idle slot, or it is answered at once.
Arrives(op) ==
    \/ \E r \in Slots : Idle(r) /\ req'[r].kind = op
    \/ req' = req /\ Responds /\ resp'.op = op

\* C1: under every interleaving of sync, deduplicate and reprocess requests,
\* at most one job body is executing at any time.
C1_OneJobBody == Cardinality({r \in Slots : JobBody(r)}) <= 1

\* C2: a sync request that arrives while a reprocess job is in flight is
\* answered 409 with a message naming "reprocess", and writes nothing.
C2_SyncDuringReprocess ==
    [][((\E r \in Slots : InFlight(r) /\ req[r].kind = "reprocess") /\ Arrives("sync"))
          => /\ Responds
             /\ resp'.op = "sync" /\ resp'.status = 409 /\ resp'.job = "reprocess"
             /\ UNCHANGED <<req, dbVars>>]_vars

\* C3: a job request that is rejected because a job is running leaves the
\* lock state {isRunning, currentJob, startTime} as it was, whatever the two
\* job names.
C3_RejectionKeepsLock ==
    [][(Responds /\ resp'.op \in JobNames /\ resp'.status = 409)
          => jobState' = jobState]_vars

\* C4: when the request of a job returns, on success or after its body
\* threw, the lock is not held in the name of that job; and once every
\* request has returned the lock is free and any job can acquire it.
C4_LockReleased ==
    [][/\ \A r \in Slots :
             (JobBody(r) /\ req'[r].pc = "idle") => jobState'.currentJob # req[r].kind
       /\ (\A r \in Slots : req'[r].pc = "idle")
             => /\ jobState' = releaseLock
                /\ \A j \in JobNames : (tryAcquireLock(j, 1).ok)']_vars

\* A sync job whose body threw after it had fetched has returned, every
\* request has returned and the lock is free.
C4_Witness ==
    /\ AllIdle
    /\ jobState = releaseLock
    /\ resp.op = "sync" /\ resp.status = 500
    /\ processing_logs # <<>>

\* C9: in either arrival order, processAlerts is never executing for a
\* single-alert reprocess while the body of a sync, deduplicate or reprocess
\* job is executing.
C9_SingleNeverRacesJob ==
    \A r, q \in Slots :
        ~(req[r].kind = "alert" /\ req[r].pc \in {"processAlerts"} \cup TurnPcs /\ JobBody(q))


(***************************************************************************)
(* Ingestion and deduplication (SpecIngest).                               *)
(***************************************************************************)
Last(s) == s[Len(s)]

\* This step is the INSERT ... ON CONFLICT of a candidate of slot r.
Inserts(r) == req[r].pc = "insert" /\ Steps(r)

\* The candidate of the step.
Inserted(r) == req[r].alerts[req[r].n]

\* The candidate of the step is stored under the key of the row a: same
\* source, same external_id, and the INSERT does not fail.
Revises(r, a) ==
    /\ Head(req[r].srcs).id = a.source_id
    /\ Inserted(r).external_id = a.external_id
    /\ ~InsertFails(Inserted(r))

SameKey(rows, a) ==
    {b \in rows : b.source_id = a.source_id /\ b.external_id = a.external_id}

\* C5, as stated: when a candidate of a (source, external_id) that is in
\* the table is ingested, exactly one row has the key afterwards, every
\* field of it is the one of the second fetch, and it is unprocessed.
C5_AllFieldsOfSecondFetch ==
    [][\A r \in Slots : Inserts(r) =>
          \A a \in alerts : Revises(r, a) =>
             \E b \in alerts' :
                /\ SameKey(alerts', a) = {b}
                /\ b.title = Inserted(r).title
                /\ b.description = OrElse(Inserted(r).description, Empty)
                /\ b.severity = Inserted(r).severity
                /\ b.updated_date = Inserted(r).updated_date
                /\ b.published_date = Inserted(r).published_date
                /\ b.url = Inserted(r).url
                /\ b.raw_data = Inserted(r).raw_data
                /\ b.is_processed = 0]_vars

\* C5, amended: when a candidate of a (source, external_id) that is in the
\* table is ingested, exactly one row has the key afterwards; its title,
\* description, severity and updated_date are those of the second fetch;
\* its id, published_date, url and raw_data are those of the first; and it
\* is unprocessed.
C5_UpsertOnNaturalKey ==
    [][\A r \in Slots : Inserts(r) =>
          \A a \in alerts : Revises(r, a) =>
             \E b \in alerts' :
                /\ SameKey(alerts', a) = {b}
                /\ b.title = Inserted(r).title
                /\ b.description = OrElse(Inserted(r).description, Empty)
                /\ b.severity = Inserted(r).severity
                /\ b.updated_date = Inserted(r).updated_date
                /\ b.id = a.id
                /\ b.published_date = a.published_date
                /\ b.url = a.url
                /\ b.raw_data = a.raw_data
                /\ b.is_processed = 0]_vars

\* The entry of Cve1 was ingested and processed (its rule exists), then its
\* revision Cve3 was ingested: one row, revised, first published_date,
\* unprocessed.
C5_Witness ==
    \E a \in alerts :
        /\ a.source_id = 3 /\ a.external_id = ExtA
        /\ SameKey(alerts, a) = {a}
        /\ a.description = Cve3.description /\ a.updated_date = Cve3.lastModified
        /\ a.published_date = Cve1.published
        /\ a.is_processed = 0
        /\ \E y \in yara_rules : y.alert_id = a.id
        /\ ~txn.open

\* The rows of `rows` that carry the external_id.
Sharing(rows, external_id) == {a \in rows : a.external_id = external_id}

\* C6: the first step of removeDuplicates leaves, of the N rows that share
\* an external_id, exactly the one with the latest published_date and, among
\* equal dates, the highest id, and counts the rows removed in alertsRemoved
\* (it deletes nothing and counts nothing when no external_id is shared);
\* the second and third steps count the rules and mappings they remove; when
\* removeDuplicates returns, no rule and no mapping references an alert that
\* is not in the table, and the counts are the ones responded.
C6_Deduplication ==
    [][\A r \in Slots :
          /\ (req[r].pc = "dedupDelete" /\ Steps(r)) =>
                /\ alerts' \subseteq alerts
                /\ \A a \in alerts :
                      \E k \in Sharing(alerts, a.external_id) :
                         /\ Sharing(alerts', a.external_id) = {k}
                         /\ \A b \in Sharing(alerts, a.external_id) :
                               \/ b.published_date < k.published_date
                               \/ (b.published_date = k.published_date /\ b.id <= k.id)
                /\ req'[r].stats.alertsRemoved = Cardinality(alerts \ alerts')
          /\ (req[r].pc \in {"dedupAlerts", "dedupEntries"} /\ Steps(r)) =>
                /\ alerts' = alerts
                /\ req'[r].pc = "dedupRules" =>
                      /\ \A a \in alerts : Sharing(alerts, a.external_id) = {a}
                      /\ req'[r].stats.alertsRemoved = 0
          /\ (req[r].pc = "dedupRules" /\ req'[r].pc = "dedupMappings") =>
                /\ yara_rules' \subseteq yara_rules
                /\ req'[r].stats =
                      [req[r].stats EXCEPT !.rulesRemoved =
                          Cardinality(yara_rules \ yara_rules')]
          /\ (req[r].pc = "dedupMappings" /\ req'[r].pc = "idle") =>
                /\ alert_mitre_mappings' \subseteq alert_mitre_mappings
                /\ \A y \in yara_rules' : \E a \in alerts' : a.id = y.alert_id
                /\ \A m \in alert_mitre_mappings' : \E a \in alerts' : a.id = m.alert_id
                /\ resp'.stats =
                      [req[r].stats EXCEPT !.mappingsRemoved =
                          Cardinality(alert_mitre_mappings \ alert_mitre_mappings')]]_vars

\* This step ends the turn of slot r's loop over the sources: the INSERT of
\* the log resolved and the outcome of the source is pushed.
TurnEnds(r) ==
    /\ req[r].pc \in {"logSuccess", "logError"} /\ Steps(r)
    /\ Len(req'[r].fetch) > Len(req[r].fetch)

\* In this step the turn of the source of slot r is over: the handler is at
\* the next source or has left the loop.
TurnOver(r) ==
    /\ req[r].pc \in FetchPcs /\ Steps(r)
    /\ req'[r].pc \notin FetchPcs \/ req'[r].srcs # req[r].srcs

\* The messages of the errors the fetch and the ingestion of a source throw.
Thrown(source) ==
    {o.error : o \in {x \in env.served[source.id] : ~x.ok}}
        \cup {DbError, InvalidTimeValue, NestedBegin, NoCommit, NoRollback}

\* C10: every turn of the loop of fetchAlerts, also one whose fetch or
\* ingestion threw, is over when exactly one log entry was appended for its
\* source; when the turn failed the entry has status error and the message
\* thrown, the result pushed is {source, status: 'error', error: message},
\* and the loop goes on to the next source: fetchAlerts returns only after
\* the turn of the last one.
C10_FailureIsolation ==
    [][\A r \in Slots :
          /\ TurnOver(r) =>
                /\ Len(processing_logs') = Len(processing_logs) + 1
                /\ Len(req'[r].fetch) = Len(req[r].fetch) + 1
                /\ processing_logs' = Append(processing_logs, Last(processing_logs'))
                /\ req'[r].fetch = Append(req[r].fetch, Last(req'[r].fetch))
                /\ Last(processing_logs').source_id = Head(req[r].srcs).id
                /\ Last(processing_logs').status = Last(req'[r].fetch).status
                /\ Last(req'[r].fetch).source = Head(req[r].srcs).name
                /\ Last(req'[r].fetch).status = "error" =>
                      /\ Last(req'[r].fetch) =
                            [source |-> Head(req[r].srcs).name, status |-> "error",
                             error |-> Last(processing_logs').error_message]
                      /\ Last(processing_logs').error_message \in Thrown(Head(req[r].srcs))
                /\ IF Tail(req[r].srcs) # <<>>
                   THEN req'[r].pc = "fetchAlerts" /\ req'[r].srcs = Tail(req[r].srcs)
                   ELSE req'[r].pc = "processAlerts"
          /\ (req[r].pc \in FetchPcs /\ Steps(r) /\ ~TurnOver(r)) =>
                /\ req'[r].fetch = req[r].fetch
                /\ req'[r].pc = "logError" => req'[r].error \in Thrown(Head(req[r].srcs))]_vars


(***************************************************************************)
(* The batch of a source (SpecIngest).                                     *)
(***************************************************************************)
\* This step ends the turn of a source some candidate of whose batch failed
\* to insert.
BadRowIngested(r) ==
    /\ TurnEnds(r)
    /\ \E i \in 1..Len(req[r].alerts) : InsertFails(req[r].alerts[i])

\* C11: when a candidate of a source's batch fails to insert with a
\* non-conflict error, no row of the batch is in the table afterwards and
\* the source is reported as an error.
C11_BatchAllOrNothing ==
    [][\A r \in Slots : BadRowIngested(r) =>
          /\ Last(req'[r].fetch).status = "error"
          /\ \A i \in 1..Len(req[r].alerts), a \in alerts' :
                ~(/\ a.source_id = Head(req[r].srcs).id
                  /\ a.external_id = req[r].alerts[i].external_id)]_vars

(***************************************************************************)
(* What the feed says: the titles and the texts of the items of the RSS    *)
(* source, for the Technique Mapper, the Indicator Engine and the Rule     *)
(* Generator (SpecText).                                                   *)
(***************************************************************************)
TitleSql == <<"S", "Q", "L">>
TitleTwo == <<"D", "i", "r", "e", "c", "t", "o", "r", "y", " ", "x", "s", "s">>
TitleMark == <<"q", "?">>
TitleRce == <<"R", "C", "E", " ", "n", "o", "t", "e">>

\* Six addresses, nine domains of which three
\* are excluded, and six md5 digests with a sha1 and a sha256 digest.
TextNothing ==
    <<"n", "o", "t", "h", "i", "n", "g">>
TextSqlXss ==
    <<"s", "q", "l", " ", "x", "s", "s">>
TextCommand ==
    <<"c", "o", "m", "m", "a", "n", "d", " ", "i", "n", "j", "e", "c", "t", "i",
      "o", "n", " ", "i", "n", " ", "d", "i", "r", "e", "c", "t", "o", "r", "y">>
TextDatabase ==
    <<"d", "a", "t", "a", "b", "a", "s", "e", " ", "i", "n", "j", "e", "c", "t",
      "i", "o", "n">>
TextRemote ==
    <<"R", "e", "m", "o", "t", "e", " ", "C", "o", "d", "e", " ", "e", "x", "e",
      "c", "u", "t", "i", "o", "n">>
TextTraversal ==
    <<"X", "S", "S", " ", ".", ".", "/", " ", "r", "c", "e">>
TextIps ==
    <<"1", ".", "1", ".", "1", ".", "1", " ", "2", ".", "2", ".", "2", ".", "2",
      " ", "3", ".", "3", ".", "3", ".", "3", " ", "4", ".", "4", ".", "4", ".",
      "4", " ", "5", ".", "5", ".", "5", ".", "5", " ", "6", ".", "6", ".", "6",
      ".", "6">>
TextDomains ==
    <<"a", ".", "c", "o", "m", " ", "b", ".", "o", "r", "g", " ", "x", ".", "e",
      "x", "a", "m", "p", "l", "e", ".", "n", "e", "t", " ", "d", "1", ".", "i",
      "o", " ", "d", "2", ".", "i", "o", " ", "d", "3", ".", "i", "o", " ", "d",
      "4", ".", "I", "O", " ", "d", "5", ".", "i", "o", " ", "d", "6", ".", "i",
      "o">>
TextHashes ==
    <<"c", "f", "c", "d", "2", "0", "8", "4", "9", "5", "d", "5", "6", "5", "e",
      "f", "6", "6", "e", "7", "d", "f", "f", "9", "f", "9", "8", "7", "6", "4",
      "d", "a", " ", "C", "4", "C", "A", "4", "2", "3", "8", "A", "0", "B", "9",
      "2", "3", "8", "2", "0", "D", "C", "C", "5", "0", "9", "A", "6", "F", "7",
      "5", "8", "4", "9", "B", " ", "c", "8", "1", "e", "7", "2", "8", "d", "9",
      "d", "4", "c", "2", "f", "6", "3", "6", "f", "0", "6", "7", "f", "8", "9",
      "c", "c", "1", "4", "8", "6", "2", "c", " ", "e", "c", "c", "b", "c", "8",
      "7", "e", "4", "b", "5", "c", "e", "2", "f", "e", "2", "8", "3", "0", "8",
      "f", "d", "9", "f", "2", "a", "7", "b", "a", "f", "3", " ", "a", "8", "7",
      "f", "f", "6", "7", "9", "a", "2", "f", "3", "e", "7", "1", "d", "9", "1",
      "8", "1", "a", "6", "7", "b", "7", "5", "4", "2", "1", "2", "2", "c", " ",
      "e", "4", "d", "a", "3", "b", "7", "f", "b", "b", "c", "e", "2", "3", "4",
      "5", "d", "7", "7", "7", "2", "b", "0", "6", "7", "4", "a", "3", "1", "8",
      "d", "5", " ", "b", "6", "5", "8", "9", "f", "c", "6", "a", "b", "0", "d",
      "c", "8", "2", "c", "f", "1", "2", "0", "9", "9", "d", "1", "c", "2", "d",
      "4", "0", "a", "b", "9", "9", "4", "e", "8", "4", "1", "0", "c", " ", "5",
      "f", "e", "c", "e", "b", "6", "6", "f", "f", "c", "8", "6", "f", "3", "8",
      "d", "9", "5", "2", "7", "8", "6", "c", "6", "d", "6", "9", "6", "c", "7",
      "9", "c", "2", "d", "b", "c", "2", "3", "9", "d", "d", "4", "e", "9", "1",
      "b", "4", "6", "7", "2", "9", "d", "7", "3", "a", "2", "7", "f", "b", "5",
      "7", "e", "9">>

TextTitles == {TitleSql, TitleTwo, TitleMark, TitleRce}
TextSnippets ==
    {Undefined, TextNothing, TextSqlXss, TextCommand, TextDatabase, TextRemote,
     TextTraversal}
IndicatorTexts == {TextIps, TextDomains, TextHashes}

\* The item of the feed with this guid, title and text.
TextItem(guid, title, snippet) ==
    [guid |-> guid, link |-> <<"u","1">>, title |-> title,
     contentSnippet |-> snippet, content |-> Undefined, isoDate |-> 1,
     pubDate |-> 1]

ExtC == <<"a","_","1">>
TitleBang == <<"q","!">>

\* The feeds: one item of any title and text, one item whose text holds
\* indicators, or two items whose titles and identifiers differ in
\* characters that are not alphanumeric.
TextFeeds ==
    {<<TextItem(ExtA, title, snippet)>> : title \in TextTitles, snippet \in TextSnippets}
        \cup {<<TextItem(ExtA, TitleMark, text)>> : text \in IndicatorTexts}
        \cup {<<TextItem(ExtA, TitleMark, TextNothing),
                TextItem(ExtC, TitleBang, TextNothing)>>}

\* ---- The RSS source is active and serves one feed; sync jobs run one
\* after the other while time passes.
TextEnv(feed) ==
    [sources |-> Active({1}),
     served |-> [NoSource EXCEPT ![1] = {Served(feed)}],
     faults |-> {}]

NextText ==
    \/ \E r \in Slots :
        \/ AllIdle /\ SyncsLeft /\ PostJobsSync(r)
        \/ FetchSteps(r)
        \/ InsertCandidate(r)
        \/ ProcessSelect(r)
        \/ TurnSteps(r)
    \/ Tick

SpecText ==
    /\ \E feed \in TextFeeds : InitWith(TextEnv(feed))
    /\ [][NextText]_vars

(***************************************************************************)
(* The Technique Mapper (SpecText).                                        *)
(***************************************************************************)
\* This step is one of a turn of the loop of processAlerts in slot r.
Turn(r) == req[r].pc \in TurnPcs /\ Steps(r)

\* The alert of the turn, as selected.
Turned(r) == Head(req[r].queue)

\* In this step the rule generated for the alert of the turn is inserted
\* and the alert is mapped.
Generates(r) == req[r].pc = "insertRule" /\ Steps(r)

\* In this step, the last of its turn, the alert is marked processed.
Marks(r) == req[r].pc = "markProcessed" /\ Steps(r)

\* The results of processAlerts in slot r after this step: in the slot, or
\* in the response when the step answered.
ResultsAfter(r) == IF req'[r].pc = "idle" THEN resp'.process ELSE req'[r].process

\* The UPDATE that marks the alert of the turn resolved in this step: the
\* alert is reported as processed.
Marked(r) == Marks(r) /\ Last(ResultsAfter(r)).status = "processed"

\* The lowercased title and description of the alert.
AlertText(a) == toLowerCase(a.title \o <<" ">> \o a.description)

\* Some keyword of the pattern table occurs in the text.
KeywordOccurs(text) ==
    \E i \in 1..Len(patterns) : PatternHits(patterns[i], text)

\* C12: an alert marked processed has a mapping row; mapToMitre of the
\* alert is never empty, and is the default mapping alone (T1190,
\* confidence 0.50) when no keyword occurs in title or description.
C12_AtLeastOneMapping ==
    [][\A r \in Slots :
          /\ Marked(r) => \E m \in alert_mitre_mappings' : m.alert_id = Turned(r).id
          /\ Generates(r) =>
                /\ mapToMitre(Turned(r)) # <<>>
                /\ ~KeywordOccurs(AlertText(Turned(r))) =>
                      /\ Len(mapToMitre(Turned(r))) = 1
                      /\ mapToMitre(Turned(r))[1].technique_id = "T1190"
                      /\ mapToMitre(Turned(r))[1].confidence_score = 50]_vars

(***************************************************************************)
(* The Rule Generator (SpecText).                                          *)
(***************************************************************************)
\* C13: an alert marked processed owns exactly one rule row.
C13_OneRulePerAlert ==
    [][\A r \in Slots : Marks(r) =>
          Cardinality({y \in yara_rules' : y.alert_id = Turned(r).id}) = 1]_vars

\* The content of rule y is what generateYaraRule returned for an alert of
\* the title, description, severity, url and external_id of a.
GeneratedFrom(y, a) ==
    y.rule_content = generateYaraRule(a, y.rule_content.generated).content

\* C14: the content of the rule a turn generates for an alert is the
\* content generateYaraRule returns for the same alert at any time up to
\* the present.
C14_SameContent ==
    [][\A r \in Slots : Generates(r) =>
          \A z \in yara_rules' \ yara_rules, t \in 1..now :
              z.alert_id = Turned(r).id =>
                  z.rule_content = generateYaraRule(Turned(r), t).content]_vars

(***************************************************************************)
(* Trigger-reprocess (SpecReprocess).                                      *)
(***************************************************************************)
\* ---- Sync and reprocess jobs one after the other; the source serves one
\* of two entries, and every statement of a turn of the loop of
\* processAlerts may reject.
ReprocessEnv ==
    [sources |-> Active({3}),
     served |-> [NoSource EXCEPT ![3] = {Served(<<Cve1>>), Served(<<Cve2>>)}],
     faults |-> {"process"}]

NextReprocess ==
    \E r \in Slots :
        \/ AllIdle /\ SyncsLeft /\ PostJobsSync(r)
        \/ AllIdle /\ PostJobsReprocess(r)
        \/ ResetAll(r)
        \/ FetchSteps(r)
        \/ InsertCandidate(r)
        \/ ProcessSelect(r)
        \/ TurnSteps(r)
        \/ DedupSteps(r)

SpecReprocess == InitWith(ReprocessEnv) /\ [][NextReprocess]_vars

\* The phases of the handler of reprocess, in their order: the reset, the
\* batch processor, deduplication.
Phase(pc) ==
    IF pc = "resetAll" THEN 1
    ELSE IF pc = "processAlerts" \/ pc \in TurnPcs THEN 2
    ELSE IF pc \in DedupPcs THEN 3
    ELSE 0

\* C15: a reprocess request that is accepted resets the processed flag of
\* every alert; its handler goes from the reset to the batch processor, from
\* there to deduplication and from there to its response; and when it
\* answers success every alert of the table is marked processed.
C15_ReprocessMarksAll ==
    [][/\ \A r \in Slots :
             (req[r].pc = "resetAll" /\ req'[r].pc # "idle") =>
                 /\ req'[r].pc = "processAlerts"
                 /\ \A a \in alerts' : a.is_processed = 0
       /\ \A r \in Slots :
             (Steps(r) /\ "reprocess" \in {req[r].kind, req'[r].kind}) =>
                 /\ Idle(r) => req'[r].pc = "resetAll"
                 /\ req'[r].pc # "idle" => Phase(req[r].pc) <= Phase(req'[r].pc)
                 /\ (req'[r].pc = "idle" /\ resp'.status = 200) =>
                       req[r].pc = "dedupMappings"
       /\ (Responds /\ resp'.op = "reprocess" /\ resp'.status = 200) =>
             \A a \in alerts' : a.is_processed = 1]_vars

(***************************************************************************)
(* Requests that name a rule or an alert (SpecRules).                      *)
(***************************************************************************)
\* The UPDATE of a reprocess-single-alert request resolves in this step and
\* the request names an id no alert has.
MissingAlertNamed ==
    \E r \in Slots :
        /\ req[r].pc = "resetOne" /\ Steps(r)
        /\ \A a \in alerts : a.id # req[r].id

\* The SELECT of an update-rule or delete-rule request resolves in this step
\* and the request names an id no rule has.
MissingRuleNamed ==
    \E r \in Slots :
        /\ req[r].pc \in {"putSelect", "deleteSelect"} /\ Steps(r)
        /\ \A y \in yara_rules : y.id # req[r].id

\* C16: update-rule and delete-rule for an id no rule has, and
\* reprocess-single-alert for an id no alert has, are answered 404 and
\* leave the store as it is.
C16_NotFound ==
    [][/\ MissingRuleNamed =>
             /\ Responds /\ resp'.op \in {"put", "delete"} /\ resp'.status = 404
             /\ dbVars' = dbVars
       /\ MissingAlertNamed =>
             Responds /\ resp'.op = "alert" /\ resp'.status = 404 /\ dbVars' = dbVars]_vars

\* C17: an update-rule request for an existing rule succeeds, locked or
\* not; the lock flag is unchanged when the body carries none, the content
\* is unchanged when the body carries none, and is the content of the body
\* otherwise.
C17_PartialUpdate ==
    [][\A r \in Slots :
          (req[r].pc = "putUpdate" /\ Steps(r)
              /\ \E y \in yara_rules : y.id = req[r].id) =>
              /\ resp'.status = 200
              /\ \A y \in yara_rules, z \in yara_rules' :
                    (y.id = req[r].id /\ z.id = req[r].id) =>
                        /\ req[r].body.is_locked = NoFlag => z.is_locked = y.is_locked
                        /\ req[r].body.rule_content = NoContent =>
                              z.rule_content = y.rule_content
                        /\ req[r].body.rule_content # NoContent =>
                              z.rule_content = req[r].body.rule_content]_vars

(***************************************************************************)
(* The Technique Mapper: which entries match (SpecText).                   *)
(***************************************************************************)
\* The technique ids of the entries of the pattern table with a keyword in
\* the text; the id of the default mapping when there is none.
TechniquesOf(text) ==
    IF KeywordOccurs(text)
    THEN {patterns[i].technique_id :
            i \in {j \in 1..Len(patterns) : PatternHits(patterns[j], text)}}
    ELSE {DefaultMapping.technique_id}

\* C18: the technique ids mapped to an alert marked processed are those of
\* all entries of the pattern table with a keyword in the lowercased title
\* and description of the alert.
C18_AllMatches ==
    [][\A r \in Slots : Marks(r) =>
          {m.technique_id :
              m \in {x \in Joined(alert_mitre_mappings', mitre_attack_techniques') :
                        x.alert_id = Turned(r).id}}
             = TechniquesOf(AlertText(Turned(r)))]_vars

(***************************************************************************)
(* The Indicator Engine (SpecText).                                        *)
(***************************************************************************)
\* The text generateYaraRule hands to extractIndicators.
IndicatorText(a) == OrElse(a.description, a.title)

\* How many of the texts have n characters.
CountOfLength(texts, n) == Cardinality({i \in 1..Len(texts) : Len(texts[i]) = n})

\* The number of elements of a list, capped.
Capped(n) == IF n < IndicatorCap THEN n ELSE IndicatorCap

\* C19: extractIndicators returns at most 5 md5, 5 sha1 and 5 sha256
\* matches in hashes, at most 5 addresses and at most 5 domains; no domain
\* returned ends in .com or .org or contains "example"; and the domains are
\* the first 5 of the matches that pass the filter.
C19_IndicatorCaps ==
    [][\A r \in Slots : Generates(r) =>
          LET text == IndicatorText(Turned(r))
              found == extractIndicators(text)
              passing == SelectSeq(Matches("domain", text, 1),
                                   LAMBDA d : /\ ~EndsWith(d, <<".","c","o","m">>)
                                              /\ ~EndsWith(d, <<".","o","r","g">>)
                                              /\ ~Includes(d, <<"e","x","a","m","p","l","e">>))
          IN  /\ CountOfLength(found.hashes, Md5Length) <= IndicatorCap
              /\ CountOfLength(found.hashes, Sha1Length) <= IndicatorCap
              /\ CountOfLength(found.hashes, Sha256Length) <= IndicatorCap
              /\ Len(found.hashes) <= 3 * IndicatorCap
              /\ Len(found.ips) <= IndicatorCap
              /\ Len(found.domains) <= IndicatorCap
              /\ found.domains = SubSeq(passing, 1, Capped(Len(passing)))]_vars

\* The rule of the alert whose text holds nine domains, three of them
\* excluded, has been generated: its strings are the first five of the six
\* domains that pass the filter.
C19_Witness ==
    \E a \in alerts, y \in yara_rules :
        /\ a.description = TextDomains /\ a.is_processed = 1
        /\ y.alert_id = a.id
        /\ Len(Matches("domain", TextDomains, 1)) > IndicatorCap + 1
        /\ Len(y.rule_content.strings) = IndicatorCap
        /\ [i \in 1..IndicatorCap |-> y.rule_content.strings[i].value]
              = extractIndicators(TextDomains).domains

(***************************************************************************)
(* Attack-category detection (SpecText).                                   *)
(***************************************************************************)
\* The categories in the order of detection.
CategoryOrder ==
    <<"sql_injection", "xss", "path_traversal", "command_injection", "rce">>

\* The condition of each category on the lowercased text.
Applies(category, lower) ==
    IF category = "sql_injection" THEN Includes(lower, <<"s","q","l">>)
    ELSE IF category = "xss"
    THEN \/ Includes(lower, <<"x","s","s">>)
         \/ Includes(lower, <<"c","r","o","s","s","-","s","i","t","e">>)
         \/ Includes(lower, <<"s","c","r","i","p","t","i","n","g">>)
    ELSE IF category = "path_traversal"
    THEN \/ Includes(lower, <<"t","r","a","v","e","r","s","a","l">>)
         \/ Includes(lower, <<"d","i","r","e","c","t","o","r","y">>)
         \/ Includes(lower, <<".",".","/">>)
    ELSE IF category = "command_injection"
    THEN /\ Includes(lower, <<"c","o","m","m","a","n","d">>)
         /\ \/ Includes(lower, <<"i","n","j","e","c","t","i","o","n">>)
            \/ Includes(lower, <<"e","x","e","c","u","t","i","o","n">>)
    ELSE \/ Includes(lower, <<"r","c","e">>)
         \/ Includes(lower, <<"r","e","m","o","t","e"," ","c","o","d","e">>)

\* The text generateYaraRule hands to detectAttackType.
DetectionText(a) == OrElse(a.description, a.title) \o <<" ">> \o a.title

\* C20: detectAttackType returns the first category of the order whose
\* condition the text satisfies, null when there is none, and never
\* sql_injection for a text without "sql"; the rule generated says so.
C20_FirstCategoryWins ==
    [][\A r \in Slots : Generates(r) =>
          LET text == DetectionText(Turned(r))
              lower == toLowerCase(text)
              applying == {i \in 1..Len(CategoryOrder) : Applies(CategoryOrder[i], lower)}
          IN  /\ detectAttackType(text) =
                    IF applying = {} THEN NoAttackType ELSE CategoryOrder[Min(applying)]
              /\ ~Includes(lower, <<"s","q","l">>) =>
                    detectAttackType(text) # "sql_injection"
              /\ \A z \in yara_rules' : z.alert_id = Turned(r).id =>
                    z.rule_content.attack_type =
                        IF applying = {} THEN "unknown" ELSE CategoryOrder[Min(applying)]]_vars

\* The rule of an alert whose text satisfies the conditions of
\* path_traversal and of command_injection, and has no "sql", says
\* path_traversal.
C20_Witness ==
    \E a \in alerts, y \in yara_rules :
        /\ y.alert_id = a.id /\ a.is_processed = 1
        /\ Applies("path_traversal", toLowerCase(DetectionText(a)))
        /\ Applies("command_injection", toLowerCase(DetectionText(a)))
        /\ Includes(toLowerCase(DetectionText(a)), <<"i","n","j","e","c","t","i","o","n">>)
        /\ y.rule_content.attack_type = "path_traversal"


(***************************************************************************)
(* The severity of an entry of the API source (SpecScore).                 *)
(***************************************************************************)
\* The highest base score, in tenths of a point.
TopScore == 100

\* The entries the API source may serve: without cvss metrics, with metrics
\* that carry no base score, or with a base score of 0.0 to 10.0.
ScoreEntries ==
    {[id |-> ExtA, description |-> Undefined, hasMetrics |-> FALSE,
      baseScore |-> NoScore, published |-> 1, lastModified |-> 1]}
        \cup {[id |-> ExtA, description |-> Undefined, hasMetrics |-> TRUE,
               baseScore |-> score, published |-> 1, lastModified |-> 1]
              : score \in {NoScore} \cup 0..TopScore}

\* ---- The API source is active and serves one entry; sync jobs run one
\* after the other.
ScoreEnv(cve) ==
    [sources |-> Active({3}),
     served |-> [NoSource EXCEPT ![3] = {Served(<<cve>>)}],
     faults |-> {}]

NextScore ==
    \E r \in Slots :
        \/ AllIdle /\ SyncsLeft /\ PostJobsSync(r)
        \/ FetchSteps(r)
        \/ InsertCandidate(r)
        \/ ProcessSelect(r)
        \/ TurnSteps(r)

SpecScore ==
    /\ \E cve \in ScoreEntries : InitWith(ScoreEnv(cve))
    /\ [][NextScore]_vars

\* The severity of a base score, in tenths; info for an entry without one.
SeverityOfScore(score) ==
    IF score = NoScore THEN "info"
    ELSE IF score >= 90 THEN "critical"
    ELSE IF score >= 70 THEN "high"
    ELSE IF score >= 40 THEN "medium"
    ELSE "low"

\* C21: the severity of every alert of the API source is the one of the
\* base score of its entry: critical from 9.0, high from 7.0, medium from
\* 4.0, low below, info without a score.
C21_SeverityOfScore ==
    \A a \in alerts :
        a.source_id = 3 => a.severity = SeverityOfScore(a.raw_data.baseScore)

(***************************************************************************)
(* The processed flag of an alert (SpecFlag).                              *)
(***************************************************************************)
\* ---- Every operation of the command surface: the jobs and the update-rule
\* and delete-rule requests arrive while no request is in flight,
\* single-alert reprocess requests at any moment after the first sync,
\* also while a job runs; the API source serves one entry.
FlagEnv ==
    [sources |-> Active({3}),
     served |-> [NoSource EXCEPT ![3] = {Served(<<Cve1>>)}],
     faults |-> {}]

NextFlag ==
    \/ \E r \in Slots :
        \/ AllIdle /\ SyncsLeft /\ PostJobsSync(r)
        \/ AllIdle /\ PostJobsDeduplicate(r)
        \/ AllIdle /\ PostJobsReprocess(r)
        \/ ResetAll(r)
        \/ \E id \in AlertIdPool : processing_logs # <<>> /\ PostAlertReprocess(r, id)
        \/ ResetOne(r)
        \/ FetchSteps(r)
        \/ InsertCandidate(r)
        \/ ProcessSelect(r)
        \/ TurnSteps(r)
        \/ DedupSteps(r)
    \/ \E r \in Slots :
        \/ \E id \in RuleIdPool, body \in RuleUpdates : AllIdle /\ PutYaraRule(r, id, body)
        \/ \E id \in RuleIdPool : AllIdle /\ DeleteYaraRule(r, id)
        \/ PutSelect(r)
        \/ PutUpdate(r)
        \/ DeleteSelect(r)
        \/ DeleteRule(r)

SpecFlag == InitWith(FlagEnv) /\ [][NextFlag]_vars

\* This step is the INSERT ... ON CONFLICT of a candidate with the source
\* and external_id of alert a.
Upserts(a) ==
    \E r \in Slots :
        /\ Inserts(r)
        /\ Head(req[r].srcs).id = a.source_id
        /\ Inserted(r).external_id = a.external_id

\* This step is the last of a turn of processAlerts for alert a, which ran
\* to its end: the result pushed says processed.
TurnCompletes(a) ==
    \E r \in Slots :
        /\ Marks(r) /\ Turned(r).id = a.id
        /\ \/ /\ req'[r].pc # "idle"
              /\ Last(req'[r].process) = [alert_id |-> a.id, status |-> "processed"]
           \/ /\ req'[r].pc = "idle"
              /\ Last(resp'.process) = [alert_id |-> a.id, status |-> "processed"]

\* This step is the UPDATE of a reprocess request, of the job or of the
\* single alert a.
Resets(a) ==
    \E r \in Slots :
        /\ Steps(r)
        /\ \/ req[r].pc = "resetAll"
           \/ req[r].pc = "resetOne" /\ req[r].id = a.id

RulesOf(rules, id) == {y \in rules : y.alert_id = id}
MappingsOf(maps, id) == {m \in maps : m.alert_id = id}

\* The mapping rows that mapToMitre yields for alert a.
DerivedMappings(a) ==
    {[alert_id |-> a.id, technique_id |-> mapToMitre(a)[i].technique_id,
      confidence_score |-> mapToMitre(a)[i].confidence_score]
        : i \in 1..Len(mapToMitre(a))}

\* No rule and no mapping of alert a comes from another content than the
\* one a has now.
NothingStale(rules, maps, a) ==
    /\ \A y \in RulesOf(rules, a.id) : GeneratedFrom(y, a)
    /\ MappingsOf(maps, a.id) \subseteq DerivedMappings(a)

\* ---- Sync jobs arrive while no job is in flight and single-alert
\* reprocess requests while no other is, each also while a handler of the
\* other kind is in flight; the source serves an entry or its revision.
StaleEnv ==
    [sources |-> Active({3}),
     served |-> [NoSource EXCEPT ![3] = {Served(<<Cve1>>), Served(<<Cve3>>)}],
     faults |-> {}]

\* No handler of a single-alert reprocess is in flight, no handler of a job.
NoSingle == \A q \in Slots : req[q].kind # "alert"
JobFree == \A q \in Slots : ~JobBody(q)

NextStale ==
    \E r \in Slots :
        \/ JobFree /\ SyncsLeft /\ PostJobsSync(r)
        \/ \E id \in AlertIdPool : processing_logs # <<>> /\ NoSingle /\ PostAlertReprocess(r, id)
        \/ ResetOne(r)
        \/ FetchSteps(r)
        \/ InsertCandidate(r)
        \/ ProcessSelect(r)
        \/ TurnSteps(r)

SpecStale == InitWith(StaleEnv) /\ [][NextStale]_vars

\* C23: when a turn of processAlerts marks an alert processed, the alert
\* has a rule, every rule of it is the one generated from its current
\* content, and its mappings are exactly those of its current content.
C23_NoStaleArtifacts ==
    [][\A r \in Slots : Marks(r) =>
          \A a \in alerts' : a.id = Turned(r).id =>
              /\ RulesOf(yara_rules', a.id) # {}
              /\ NothingStale(yara_rules',
                              Joined(alert_mitre_mappings', mitre_attack_techniques'), a)
              /\ MappingsOf(Joined(alert_mitre_mappings', mitre_attack_techniques'), a.id)
                    = DerivedMappings(a)]_vars

(***************************************************************************)
(* The frame of the upsert (SpecUpsert).                                   *)
(***************************************************************************)
\* Row b is row a overwritten by candidate cand in the columns of DO UPDATE
\* SET, and in no other.
Overwritten(a, b, cand) ==
    b = [a EXCEPT !.title = cand.title,
                  !.description = OrElse(cand.description, Empty),
                  !.severity = cand.severity,
                  !.updated_date = cand.updated_date,
                  !.is_processed = 0]

\* C24: no step of a turn of fetchAlerts changes a rule or a mapping; the
\* INSERT of a candidate leaves an existing alert of its (source,
\* external_id) with its id, published_date, url and raw_data, gives it the
\* title, description, severity and updated_date of the candidate and makes
\* it unprocessed; every other existing alert is left as it is; and no
\* other step of the turn changes an alert.
C24_UpsertFrame ==
    [][\A r \in Slots : (req[r].pc \in FetchPcs /\ Steps(r)) =>
          /\ yara_rules' = yara_rules
          /\ alert_mitre_mappings' = alert_mitre_mappings
          /\ ~Inserts(r) => alerts' = alerts
          /\ Inserts(r) =>
                \A a \in alerts :
                   IF ~Revises(r, a)
                   THEN a \in alerts'
                   ELSE \E b \in alerts' :
                           /\ b.id = a.id
                           /\ Overwritten(a, b, Inserted(r))]_vars

\* The alert of an entry has been upserted by the revision of the entry
\* after it was processed: it is unprocessed, reads the revised description
\* under the published date and raw data of the first version, and its rule
\* is still the one of the first version.
C24_Witness ==
    \E a \in alerts :
        /\ a.is_processed = 0
        /\ a.raw_data = Cve1 /\ a.published_date = Cve1.published
        /\ a.description = Cve3.description /\ a.updated_date = Cve3.lastModified
        /\ \E y \in yara_rules : y.alert_id = a.id /\ y.description = Cve1.description
        /\ \E m \in alert_mitre_mappings : m.alert_id = a.id

(***************************************************************************)
(* The log of fetchAlerts (SpecLog).                                       *)
(***************************************************************************)
\* The last n entries of the log.
LastLogs(logs, n) == SubSeq(logs, Len(logs) - n + 1, Len(logs))

\* C25: every turn of the loop of fetchAlerts appends exactly one log entry,
\* for its source, in its last step.  A success entry counts the candidates
\* fetched and is written after the UPDATE of last_checked_at, which is
\* issued after the COMMIT of the batch and sets last_checked_at of the
\* source to the date read when the COMMIT resolved; no other step of the
\* turn changes last_checked_at, and when a turn writes an error entry
\* last_checked_at of its source is the one the source was selected with.
\* When fetchAlerts returns, the entries of its run are one for each active
\* source, in their order.
C25_OneLogPerSource ==
    [][\A r \in Slots : (req[r].pc \in FetchPcs /\ Steps(r)) =>
          /\ ~TurnOver(r) => Len(processing_logs') = Len(processing_logs)
          /\ TurnOver(r) =>
                /\ Len(processing_logs') = Len(processing_logs) + 1
                /\ processing_logs' = Append(processing_logs, Last(processing_logs'))
                /\ Last(processing_logs').source_id = Head(req[r].srcs).id
                /\ Last(processing_logs').status =
                      IF req[r].pc = "logSuccess" THEN "success" ELSE "error"
                /\ Last(processing_logs').alerts_found =
                      IF req[r].pc = "logSuccess" THEN Len(req[r].alerts) ELSE 0
                /\ Last(processing_logs').status = "error" =>
                      alert_sources'[Head(req[r].srcs).id] =
                          Head(req[r].srcs).last_checked_at
          /\ (req[r].pc = "logSuccess") =>
                /\ alert_sources[Head(req[r].srcs).id] # NoTime
                /\ ~txn.open
                /\ \A i \in 1..Len(req[r].alerts) :
                      ~InsertFails(req[r].alerts[i]) =>
                          \E a \in alerts :
                              /\ a.source_id = Head(req[r].srcs).id
                              /\ a.external_id = req[r].alerts[i].external_id
          /\ (req'[r].pc = "logSuccess") => req[r].pc = "updateSource"
          /\ (req'[r].pc = "updateSource") =>
                /\ req[r].pc = "commit" /\ ~txn'.open
                /\ req'[r].at = now
          /\ (req[r].pc = "updateSource") =>
                alert_sources' =
                    IF req'[r].pc = "logSuccess"
                    THEN [alert_sources EXCEPT ![Head(req[r].srcs).id] = req[r].at]
                    ELSE alert_sources
          /\ (req[r].pc # "updateSource") => alert_sources' = alert_sources
          /\ req'[r].pc = "processAlerts" =>
                /\ Len(processing_logs') >= Len(env.sources)
                /\ \A i \in 1..Len(env.sources) :
                      LastLogs(processing_logs', Len(env.sources))[i].source_id
                          = env.sources[i].id]_vars

(***************************************************************************)
(* The errors of the batch processor (SpecReprocess).                      *)
(***************************************************************************)
\* This step ends the turn of slot r's loop over the alerts.
AlertDone(r) == Turn(r) /\ req'[r].queue # req[r].queue

\* C26: every turn of the loop of processAlerts pushes one result, for its
\* alert, in its last step; when the turn threw, the result says error, no
\* row of alerts is written and the alert stays unprocessed; otherwise the
\* alert is marked processed; in either case the loop goes on with the next
\* alert selected, and when it ends every alert reported processed is
\* marked processed and every alert reported as an error is unprocessed.
C26_ErrorIsolation ==
    [][\A r \in Slots :
          /\ (Turn(r) /\ ~AlertDone(r)) =>
                req'[r].pc \in TurnPcs /\ req'[r].process = req[r].process
          /\ AlertDone(r) =>
                /\ ResultsAfter(r) = Append(req[r].process, Last(ResultsAfter(r)))
                /\ Last(ResultsAfter(r)).alert_id = Turned(r).id
                /\ Last(ResultsAfter(r)).status \in {"processed", "error"}
                /\ Last(ResultsAfter(r)).status = "error" =>
                      /\ alerts' = alerts
                      /\ \A a \in alerts' : a.id = Turned(r).id => a.is_processed = 0
                /\ Last(ResultsAfter(r)).status = "processed" =>
                      /\ Marks(r)
                      /\ \E a \in alerts' : a.id = Turned(r).id /\ a.is_processed = 1
                /\ IF Tail(req[r].queue) # <<>>
                   THEN req'[r].pc = "deleteRules" /\ req'[r].queue = Tail(req[r].queue)
                   ELSE \A i \in 1..Len(ResultsAfter(r)) :
                           \A a \in alerts' :
                              a.id = ResultsAfter(r)[i].alert_id =>
                                 a.is_processed =
                                    IF ResultsAfter(r)[i].status = "processed" THEN 1
                                    ELSE 0]_vars

\* A reprocess job over two alerts answered: the turn of the first alert
\* threw and the alert is unprocessed, the second was processed after it
\* and is marked processed.
C26_Witness ==
    /\ resp.op = "reprocess" /\ resp.status = 200
    /\ Len(resp.process) = 2
    /\ resp.process[1].status = "error"
    /\ resp.process[2].status = "processed"
    /\ \E a, b \in alerts :
          /\ a.id = resp.process[1].alert_id /\ a.is_processed = 0
          /\ b.id = resp.process[2].alert_id /\ b.is_processed = 1
          /\ \E y \in yara_rules : y.alert_id = b.id

(***************************************************************************)
(* The condition of the rule (SpecCondition).                              *)
(***************************************************************************)
\* One digest, one address and one domain, each followed by a space.
PieceHash == SubSeq(TextHashes, 1, Md5Length) \o <<" ">>
PieceIp == <<"1", ".", "1", ".", "1", ".", "1", " ">>
PieceDomain == <<"d", "1", ".", "i", "o", " ">>

\* The texts: with or without a digest, an address and a domain, then a
\* word of no category, of xss, or of rce.
ConditionTexts ==
    {h \o i \o d \o w :
        h \in {<<>>, PieceHash}, i \in {<<>>, PieceIp}, d \in {<<>>, PieceDomain},
        w \in {<<"n","o","t","e">>, <<"x","s","s">>, <<"r","c","e">>}}

\* ---- The RSS source serves one item whose text is one of the texts; sync
\* jobs run one after the other.
NextCondition ==
    \E r \in Slots :
        \/ AllIdle /\ SyncsLeft /\ PostJobsSync(r)
        \/ FetchSteps(r)
        \/ InsertCandidate(r)
        \/ ProcessSelect(r)
        \/ TurnSteps(r)

SpecCondition ==
    /\ \E text \in ConditionTexts :
          InitWith(TextEnv(<<TextItem(ExtA, TitleMark, text)>>))
    /\ [][NextCondition]_vars

ClauseHash ==
    <<"a","n","y"," ","o","f"," ","(","$","h","a","s","h","*",")">>
ClauseIp ==
    <<"a","n","y"," ","o","f"," ","(","$","i","p","*",")">>
ClauseDomain ==
    <<"a","n","y"," ","o","f"," ","(","$","d","o","m","a","i","n","*",")">>
ClauseGeneric == <<"$","g","e","n","e","r","i","c">>
Or == <<" ","o","r"," ">>

\* The clause of a category: any of the strings of its signature.
ClauseCategory(category) ==
    <<"a","n","y"," ","o","f"," ","(","$">>
        \o (CASE category = "sql_injection" -> <<"s","q","l","i">>
              [] category = "xss" -> <<"x","s","s">>
              [] category = "path_traversal" -> <<"p","t">>
              [] category = "command_injection" -> <<"c","m","d">>
              [] category = "rce" -> <<"r","c","e">>)
        \o <<"*",")">>

\* The clauses in the order hashes, addresses, domains, category, one for
\* each class that is not empty and one for the category detected.
ExpectedClauses(found, category) ==
    (IF found.hashes # <<>> THEN <<ClauseHash>> ELSE <<>>)
        \o (IF found.ips # <<>> THEN <<ClauseIp>> ELSE <<>>)
        \o (IF found.domains # <<>> THEN <<ClauseDomain>> ELSE <<>>)
        \o (IF category # NoAttackType THEN <<ClauseCategory(category)>> ELSE <<>>)

\* The clauses joined by " or ".
RECURSIVE Disjunction(_)
Disjunction(clauses) ==
    IF Len(clauses) = 1 THEN clauses[1]
    ELSE clauses[1] \o Or \o Disjunction(Tail(clauses))

\* C27: the condition of the rule a turn generates is the clauses of the
\* indicator classes that are not empty and of the category detected, in
\* the order hashes, addresses, domains, category, joined by or; it is the
\* term $generic alone, a string of the external identifier, exactly when
\* there is no indicator and no category; and it is never empty.
C27_ConditionComposition ==
    [][\A r \in Slots : Generates(r) =>
          LET found == extractIndicators(IndicatorText(Turned(r)))
              category == detectAttackType(DetectionText(Turned(r)))
              clauses == ExpectedClauses(found, category)
          IN  \A z \in yara_rules' : z.alert_id = Turned(r).id =>
                /\ z.rule_content.condition # <<>>
                /\ clauses # <<>> => z.rule_content.condition = Disjunction(clauses)
                /\ (z.rule_content.condition = ClauseGeneric) <=> (clauses = <<>>)
                /\ clauses = <<>> =>
                      z.rule_content.strings =
                          <<[var |-> ClauseGeneric, value |-> Turned(r).external_id,
                             modifiers |-> "nocase"]>>]_vars

\* The rule of an alert whose text holds a digest, an address, a domain and
\* the word xss has the four clauses in their order; its strings are the
\* three indicators and the signature of xss.
C27_Witness ==
    \E a \in alerts, y \in yara_rules :
        /\ y.alert_id = a.id /\ a.is_processed = 1
        /\ a.description = PieceHash \o PieceIp \o PieceDomain \o <<"x","s","s">>
        /\ y.rule_content.condition =
              ClauseHash \o Or \o ClauseIp \o Or \o ClauseDomain \o Or
                  \o ClauseCategory("xss")
        /\ Len(y.rule_content.strings) = 3 + Len(ATTACK_SIGNATURES["xss"])

(***************************************************************************)
(* A single-alert request refused (SpecStale).                             *)
(***************************************************************************)
\* C28: a reprocess-single-alert request answered 409 writes nothing: the
\* processed flag of its alert and every other row of the tables are as
\* before the request.
C28_ConflictWritesNothing ==
    [][(Responds /\ resp'.op = "alert" /\ resp'.status = 409) =>
          /\ alerts' = alerts
          /\ yara_rules' = yara_rules
          /\ alert_mitre_mappings' = alert_mitre_mappings
          /\ processing_logs' = processing_logs
          /\ alert_sources' = alert_sources]_vars

(***************************************************************************)
(* Rows without their alert (SpecOrphan).                                  *)
(***************************************************************************)
\* ---- A sync job fills the table from two sources whose entries share an
\* external_id; then deduplicate and reprocess jobs arrive while no other
\* job is in flight, also while a single-alert reprocess request is, and
\* single-alert reprocess requests arrive while no request of a job or of a
\* single alert is in flight.
OrphanEnv ==
    [sources |-> Active({1, 3}),
     served |-> [NoSource EXCEPT ![1] = {Served(<<RssItem1>>)},
                                 ![3] = {Served(<<Cve1>>)}],
     faults |-> {}]

NextOrphan ==
    \E r \in Slots :
        \/ JobFree /\ processing_logs = <<>> /\ SyncsLeft /\ PostJobsSync(r)
        \/ JobFree /\ PostJobsDeduplicate(r)
        \/ JobFree /\ PostJobsReprocess(r)
        \/ ResetAll(r)
        \/ \E id \in AlertIdPool : JobFree /\ NoSingle /\ processing_logs # <<>> /\ PostAlertReprocess(r, id)
        \/ ResetOne(r)
        \/ FetchSteps(r)
        \/ InsertCandidate(r)
        \/ ProcessSelect(r)
        \/ TurnSteps(r)
        \/ DedupSteps(r)
        \/ DedupEntries(r)
        \/ DedupDelete(r)

SpecOrphan == InitWith(OrphanEnv) /\ [][NextOrphan]_vars

\* C29: when no request is in flight, every rule and every mapping names an
\* alert of the table.
C29_NoOrphans ==
    AllIdle =>
        /\ \A y \in yara_rules : \E a \in alerts : a.id = y.alert_id
        /\ \A m \in alert_mitre_mappings : \E a \in alerts : a.id = m.alert_id

(***************************************************************************)
(* The frame of deduplication (SpecDedup).                                 *)
(***************************************************************************)
\* The external_ids of the rows.
ExternalIds(rows) == {a.external_id : a \in rows}

\* Slot r runs a deduplicate job and the request answered last was a
\* deduplicate job that succeeded: no other request came between them.
SecondRun(r) ==
    /\ req[r].kind = "deduplicate"
    /\ resp.op = "deduplicate" /\ resp.status = 200

\* C30: the first step of removeDuplicates keeps every alert whose
\* external_id no other alert holds and leaves the set of external_ids of
\* the table as it is; the second and third steps keep every rule and
\* every mapping whose alert is in the table; and a run that follows a run
\* directly removes nothing and counts nothing.
C30_DedupFrame ==
    [][\A r \in Slots :
          /\ (req[r].pc \in {"dedupAlerts", "dedupEntries", "dedupDelete"}
                 /\ Steps(r)) =>
                /\ \A a \in alerts :
                      Sharing(alerts, a.external_id) = {a} => a \in alerts'
                /\ ExternalIds(alerts') = ExternalIds(alerts)
                /\ yara_rules' = yara_rules
                /\ alert_mitre_mappings' = alert_mitre_mappings
          /\ (req[r].pc = "dedupRules" /\ req'[r].pc = "dedupMappings") =>
                /\ \A y \in yara_rules :
                      (\E a \in alerts : a.id = y.alert_id) => y \in yara_rules'
                /\ alerts' = alerts
                /\ alert_mitre_mappings' = alert_mitre_mappings
          /\ (req[r].pc = "dedupMappings" /\ req'[r].pc = "idle") =>
                /\ \A m \in alert_mitre_mappings :
                      (\E a \in alerts : a.id = m.alert_id) => m \in alert_mitre_mappings'
                /\ alerts' = alerts
                /\ yara_rules' = yara_rules
          /\ (SecondRun(r) /\ Steps(r)) =>
                /\ alerts' = alerts
                /\ yara_rules' = yara_rules
                /\ alert_mitre_mappings' = alert_mitre_mappings
                /\ req'[r].pc \notin {"dedupEntries", "dedupDelete"}
                /\ req'[r].pc = "idle" => resp'.stats = ZeroStats]_vars

====
